---- MODULE Spec2Model ----
(***************************************************************************)
(* A model of the path auditor (pathauditor/pathauditor.cc): the component *)
(* classifier FileIsUserControlled, the path walker PathIsUserControlled,  *)
(* the exec-family check FileIsUserWritable and the event dispatcher       *)
(* FileEventIsUserControlled, run against a small explicit filesystem.     *)
(* Every kernel call of the code is one step of the model.                 *)
(*                                                                         *)
(* Strings are sequences of byte codes, so that splitting a path on '/'    *)
(* and taking its dirname are computed, not assumed.                        *)
(***************************************************************************)
EXTENDS Integers, Sequences, FiniteSets, TLC

\* ------------------------------------------------------------ bytes, paths

Slash == 47
Dot == 46
NameA == <<97>>
NameB == <<98>>
NameC == <<99>>
NameDot == <<Dot>>
NameDotDot == <<Dot, Dot>>

\* absl::StrSplit(path, '/', absl::SkipEmpty())
RECURSIVE SplitFrom(_, _)
SplitFrom(s, cur) ==
  IF s = <<>> THEN (IF cur = <<>> THEN <<>> ELSE <<cur>>)
  ELSE IF Head(s) = Slash
       THEN (IF cur = <<>> THEN <<>> ELSE <<cur>>) \o SplitFrom(Tail(s), <<>>)
       ELSE SplitFrom(Tail(s), Append(cur, Head(s)))

StrSplitKeepsEmpty(s) == IF s = <<>> THEN <<>> ELSE <<s>>
StrSplit(s) == SplitFrom(s, <<>>)

IsAbsolutePath(p) == Len(p) > 0 /\ p[1] = Slash

\* index of the last '/' of p, 0 when there is none (find_last_of)
LastSlash(p) ==
  LET S == {k \in 1..Len(p) : p[k] = Slash}
  IN IF S = {} THEN 0 ELSE CHOOSE k \in S : \A j \in S : j <= k

\* Dirname(path) == SplitPath(path).first
Dirname(p) ==
  LET pos == LastSlash(p)
  IN IF pos = 0 THEN <<>>
     ELSE IF pos = 1 THEN <<Slash>>
     ELSE SubSeq(p, 1, pos - 1)

\* the string made of an optional leading '/' and the components joined by '/'
RECURSIVE JoinComps(_)
JoinComps(cs) ==
  IF cs = <<>> THEN <<>>
  ELSE IF Len(cs) = 1 THEN cs[1]
  ELSE cs[1] \o <<Slash>> \o JoinComps(Tail(cs))

MkPath(abs, cs) == (IF abs THEN <<Slash>> ELSE <<>>) \o JoinComps(cs)

\* ------------------------------------------------------------ mode bits

S_IWGRP == 16
S_IWOTH == 2
S_ISVTX == 512

\* x & bit # 0, for bit a power of two
HasBit(x, bit) == (x \div bit) % 2 = 1

\* ------------------------------------------------------------ bounds

MaxFdNum == 7
MaxFaults == 1
MaxIter == 2

\* the kernel follows at most this many symlinks in one lookup (ELOOP beyond)
MAXSYMLINKS == 40

NoFd == -1
NoNode == -1
AT_FDCWD == -100

\* default of PathIsUserControlled's max_iteration_count
DefaultMaxIterationCount == 40

RootNode == 0

\* absl::optional<int>
NoAtFd == [has_value |-> FALSE, value |-> 0]
SomeFd(v) == [has_value |-> TRUE, value |-> v]
FdRange == 3..MaxFdNum

\* ------------------------------------------------------------ filesystem
\* A node: kind "dir" | "lnk" | "reg"; owner, group, permission bits; the
\* inode flags ioctl(FS_IOC_GETFLAGS) reports ("none", "immutable", or
\* "ENOTTY" when the filesystem has no such ioctl); the filesystem type
\* fstatfs reports; a directory's entries and parent; a link's target.

Dir(uid, gid, mode, iflags, fstype, parent, ents) ==
  [kind |-> "dir", uid |-> uid, gid |-> gid, mode |-> mode, iflags |-> iflags,
   fstype |-> fstype, parent |-> parent, ents |-> ents, target |-> <<>>]

Reg(uid, gid, mode, iflags) ==
  [kind |-> "reg", uid |-> uid, gid |-> gid, mode |-> mode, iflags |-> iflags,
   fstype |-> "ext", parent |-> NoNode, ents |-> <<>>, target |-> <<>>]

Lnk(uid, target) ==
  [kind |-> "lnk", uid |-> uid, gid |-> 0, mode |-> 511, iflags |-> "ENOTTY",
   fstype |-> "ext", parent |-> NoNode, ents |-> <<>>, target |-> target]

VARIABLES
  fs,                 \* the filesystem: node id -> node
  cwd,                \* the auditee's working directory (a node)
  fdtab,              \* the open descriptors: fd -> node
  fdtab0,             \* the open descriptors when the call started
  faults,             \* kernel calls made to fail so far
  kfail,              \* some kernel call failed with an error other than ENOENT/ENOTTY,
                      \* or readlinkat filled the whole buffer
  pc,                 \* position in the code
  stack,              \* positions to return to
  ret,                \* what the last returned function returned
  dir_fd,             \* FileIsUserControlled / PathIsUserControlled / FileIsUserWritable: dir_fd
  elem,               \* PathIsUserControlled: elem; FileIsUserControlled: file
  file_fd,            \* FileIsUserControlled: file_fd
  file_is_immutable,  \* FileIsUserControlled: file_is_immutable
  wpath,              \* PathIsUserControlled / FileIsUserWritable: path
  at_fd,              \* PathIsUserControlled / FileIsUserWritable: at_fd (an optional)
  max_iteration_count,\* PathIsUserControlled: max_iteration_count
  path_queue,         \* PathIsUserControlled: path_queue
  i,                  \* PathIsUserControlled: the loop counter
  sb,                 \* PathIsUserControlled: the file type in sb.st_mode
  new_fd,             \* PathIsUserControlled: new_fd
  link_buf,           \* PathIsUserControlled: link_buf
  pops,               \* pop_front calls of the walk so far
  event,              \* FileEventIsUserControlled: event
  path,               \* FileEventIsUserControlled: path
  fd_arg,             \* FileEventIsUserControlled: fd_arg (an optional)
  skip_last_element,  \* FileEventIsUserControlled: skip_last_element
  flags,              \* FileEventIsUserControlled: flags
  sec_ret,            \* what the secondary walk or the direct check returned
  walks,              \* the walks and direct checks started: <<kind, path, at_fd>>
  creat_ret,          \* what the audit of the same path as a creat event returned
  call_idx,           \* FileEvent::Arg, FileEvent::PathArg: the index the caller wrote
  proc_info,          \* the ProcessInformation: kind, pid_ alive, cwd_, fallback_, root, fds
  sanitizing,         \* path_auditor_libc.cc: the thread_local flag, one per thread
  frames,             \* the intercepted calls each thread is inside of, outermost first
  dispatched,         \* the calls of FileEventIsUserControlled made by the shims
  syslog_lines,       \* what was sent to the system log
  stderr_lines,       \* what was written to std::cerr
  origs,              \* the calls of the original libc functions, with what they returned
  test_env,           \* whether PATHAUDITOR_TEST is set in the environment
  macro_steps,        \* status macros: the steps of the function being run
  macro_pc,           \* status macros: the step the function is at
  macro_locals,       \* status macros: the targets of ASSIGN_OR_RETURN
  macro_ret,          \* status macros: the status the function returned
  macro_run           \* status macros: the statements executed so far

libcVars == <<sanitizing, frames, dispatched, syslog_lines, stderr_lines, origs, test_env>>
macroVars == <<macro_steps, macro_pc, macro_locals, macro_ret, macro_run>>
envVars == <<fs, cwd, fdtab0, call_idx, proc_info, creat_ret, libcVars, macroVars>>
clsVars == <<file_fd, file_is_immutable>>
dispVars == <<event, path, fd_arg, skip_last_element, flags, sec_ret, walks>>
walkArgs == <<wpath, at_fd, max_iteration_count>>
walkVars == <<wpath, at_fd, max_iteration_count, path_queue, i, sb, new_fd, link_buf, pops>>

\* ------------------------------------------------------------ the kernel

Ok(n) == [err |-> "OK", node |-> n]
Err(e) == [err |-> e, node |-> NoNode]

\* one name looked up in directory d
KLookup(d, n) ==
  IF n = NameDot THEN d
  ELSE IF n = NameDotDot THEN fs[d].parent
  ELSE IF n \in DOMAIN fs[d].ents THEN fs[d].ents[n]
  ELSE NoNode

\* what the kernel meets at the head of comps in directory cur: the end of
\* the path, an error, a symlink to follow ("link"), or a plain entry ("step")
KCase(cur, comps, fuel, follow) ==
  IF comps = <<>> THEN "OK"
  ELSE IF fs[cur].kind # "dir" THEN "ENOTDIR"
  ELSE LET nxt == KLookup(cur, Head(comps))
       IN IF nxt = NoNode THEN "ENOENT"
          ELSE IF fs[nxt].kind = "lnk" /\ (Tail(comps) # <<>> \/ follow)
               THEN IF fuel = 0 THEN "ELOOP" ELSE "link"
               ELSE "step"

\* where resolution restarts for the link at the head of comps, and with
\* which components
KLinkDir(cur, comps) ==
  IF IsAbsolutePath(fs[KLookup(cur, Head(comps))].target) THEN RootNode ELSE cur
KLinkComps(cur, comps) ==
  StrSplit(fs[KLookup(cur, Head(comps))].target) \o Tail(comps)

\* the kernel's resolution of the components comps0 from directory cur0,
\* following a final symlink iff follow (each level binds its arguments once)
RECURSIVE KWalk(_, _, _, _)
KWalk(cur0, comps0, fuel0, follow) ==
  [cur \in {cur0}, comps \in {comps0}, fuel \in {fuel0} |->
     CASE KCase(cur, comps, fuel, follow) = "link" ->
            KWalk(KLinkDir(cur, comps), KLinkComps(cur, comps), fuel - 1, follow)
       [] KCase(cur, comps, fuel, follow) = "step" ->
            KWalk(KLookup(cur, Head(comps)), Tail(comps), fuel, follow)
       [] KCase(cur, comps, fuel, follow) = "OK" -> Ok(cur)
       [] OTHER -> Err(KCase(cur, comps, fuel, follow))][cur0, comps0, fuel0]

\* a kernel call may also fail for a reason the filesystem model does not
\* hold (EACCES, EIO, ENOMEM, ...)
FaultChoices == IF faults < MaxFaults THEN {FALSE, TRUE} ELSE {FALSE}

FreeFds == FdRange \ DOMAIN fdtab
LowestFree == CHOOSE f \in FreeFds : \A g \in FreeFds : f <= g

OpenAs(f, n) == fdtab @@ (f :> n)
CloseFd(tab, f) == [g \in (DOMAIN tab) \ {f} |-> tab[g]]

\* openat(fd, name, O_RDONLY): no O_NOFOLLOW, the kernel follows a final link
KOpenat(fd, name) ==
  IF fd \notin DOMAIN fdtab THEN Err("EBADF")
  ELSE IF FreeFds = {} THEN Err("EMFILE")
  ELSE KWalk(fdtab[fd], <<name>>, MAXSYMLINKS, TRUE)

\* fstatat(fd, name, 0): the last component is followed
KStatFollow(fd, name) ==
  IF fd \notin DOMAIN fdtab THEN Err("EBADF")
  ELSE KWalk(fdtab[fd], <<name>>, MAXSYMLINKS, TRUE)

\* fstatat(fd, name, AT_SYMLINK_NOFOLLOW)
KStatNoFollow(fd, name) ==
  IF fd \notin DOMAIN fdtab THEN Err("EBADF")
  ELSE KWalk(fdtab[fd], <<name>>, MAXSYMLINKS, FALSE)

\* ioctl(fd, FS_IOC_GETFLAGS): "none", "immutable" or "ENOTTY"
KGetFlags(fd) == fs[fdtab[fd]].iflags

\* ------------------------------------------------------------ returning

Return(v) ==
  /\ ret' = v
  /\ pc' = Head(stack)
  /\ stack' = Tail(stack)

\* ------------------------------------------------------------ FileIsUserControlled

IsProcOnly(t) == t = "proc"
IsProcOrCgroup(t) == t \in {"proc", "cgroup", "cgroup2"}

\* lines 132-140: special names, then FdIsImmutable(dir_fd)
FIUC_DirImmutable ==
  /\ pc = "FIUC"
  /\ \E fail \in FaultChoices :
       IF elem = NameDot \/ elem = NameDotDot
       THEN /\ ~fail
            /\ Return("false")
            /\ UNCHANGED <<faults, kfail>>
       ELSE IF fail
       THEN /\ faults' = faults + 1
            /\ kfail' = TRUE
            /\ Return("FAILED_PRECONDITION")
       ELSE /\ UNCHANGED <<faults, kfail>>
            /\ IF KGetFlags(dir_fd) = "immutable"
               THEN Return("false")
               ELSE /\ pc' = "FIUC_open"
                    /\ UNCHANGED <<stack, ret>>
  /\ UNCHANGED <<envVars, dispVars, walkVars, fdtab, dir_fd, elem, clsVars>>

\* lines 142-148: the probe open of the component
FIUC_Open ==
  /\ pc = "FIUC_open"
  /\ \E fail \in FaultChoices :
       LET r == KOpenat(dir_fd, elem)
       IN IF fail \/ r.err \notin {"OK", "ENOENT"}
          THEN /\ faults' = IF fail THEN faults + 1 ELSE faults
               /\ kfail' = TRUE
               /\ Return("FAILED_PRECONDITION")
               /\ UNCHANGED <<fdtab, file_fd>>
          ELSE IF r.err = "ENOENT"
          THEN /\ pc' = "FIUC_statfs"
               /\ UNCHANGED <<faults, kfail, stack, ret, fdtab, file_fd>>
          ELSE /\ file_fd' = LowestFree
               /\ fdtab' = OpenAs(LowestFree, r.node)
               /\ pc' = "FIUC_file_ioctl"
               /\ UNCHANGED <<faults, kfail, stack, ret>>
  /\ UNCHANGED <<envVars, dispVars, walkVars, dir_fd, elem, file_is_immutable>>

\* line 149: FdIsImmutable(file_fd); on its error the function returns at once
FIUC_FileImmutable ==
  /\ pc = "FIUC_file_ioctl"
  /\ \E fail \in FaultChoices :
       IF fail
       THEN /\ faults' = faults + 1
            /\ kfail' = TRUE
            /\ Return("FAILED_PRECONDITION")
            /\ UNCHANGED file_is_immutable
       ELSE /\ file_is_immutable' = (KGetFlags(file_fd) = "immutable")
            /\ pc' = "FIUC_close"
            /\ UNCHANGED <<faults, kfail, stack, ret>>
  /\ UNCHANGED <<envVars, dispVars, walkVars, fdtab, dir_fd, elem, file_fd>>

\* lines 150-153: close(file_fd), then the verdict on the file's flag
FIUC_Close ==
  /\ pc = "FIUC_close"
  /\ fdtab' = CloseFd(fdtab, file_fd)
  /\ IF file_is_immutable
     THEN Return("false")
     ELSE /\ pc' = "FIUC_statfs"
          /\ UNCHANGED <<stack, ret>>
  /\ UNCHANGED <<envVars, dispVars, walkVars, faults, kfail, dir_fd, elem, clsVars>>

\* lines 156-166: fstatfs(dir_fd)
FIUC_Statfs ==
  /\ pc = "FIUC_statfs"
  /\ \E fail \in FaultChoices :
       IF fail
       THEN /\ faults' = faults + 1
            /\ kfail' = TRUE
            /\ Return("FAILED_PRECONDITION")
       ELSE /\ UNCHANGED <<faults, kfail>>
            /\ IF IsProcOrCgroup(fs[fdtab[dir_fd]].fstype)
               THEN Return("false")
               ELSE /\ pc' = "FIUC_fstat"
                    /\ UNCHANGED <<stack, ret>>
  /\ UNCHANGED <<envVars, dispVars, walkVars, fdtab, dir_fd, elem, clsVars>>

\* line 174: non-root owner
NonRootOwnerInverted(st) == st.uid = 0
NonRootOwner(st) == st.uid # 0

UserWritableModeOwnerBit(st) ==
  (st.gid # 0 /\ HasBit(st.mode, S_IWGRP)) \/ HasBit(st.mode, S_IWOTH) \/ HasBit(st.mode, 128)

\* line 179: root owned dir that is writable by a user
UserWritableMode(st) ==
  (st.gid # 0 /\ HasBit(st.mode, S_IWGRP)) \/ HasBit(st.mode, S_IWOTH)

\* lines 168-183 and 206: fstat(dir_fd)
FIUC_Fstat ==
  /\ pc = "FIUC_fstat"
  /\ \E fail \in FaultChoices :
       LET st == fs[fdtab[dir_fd]]
       IN IF fail
          THEN /\ faults' = faults + 1
               /\ kfail' = TRUE
               /\ Return("FAILED_PRECONDITION")
          ELSE /\ UNCHANGED <<faults, kfail>>
               /\ IF NonRootOwner(st) THEN Return("true")
                  ELSE IF UserWritableMode(st)
                  THEN IF ~HasBit(st.mode, S_ISVTX)
                       THEN Return("true")
                       ELSE /\ pc' = "FIUC_fstatat"
                            /\ UNCHANGED <<stack, ret>>
                  ELSE Return("false")
  /\ UNCHANGED <<envVars, dispVars, walkVars, fdtab, dir_fd, elem, clsVars>>

\* lines 191-204: in a sticky directory, who owns the file
FIUC_Fstatat ==
  /\ pc = "FIUC_fstatat"
  /\ \E fail \in FaultChoices :
       LET r == KStatNoFollow(dir_fd, elem)
       IN IF fail \/ r.err \notin {"OK", "ENOENT"}
          THEN /\ faults' = IF fail THEN faults + 1 ELSE faults
               /\ kfail' = TRUE
               /\ Return("FAILED_PRECONDITION")
          ELSE /\ UNCHANGED <<faults, kfail>>
               /\ IF r.err = "ENOENT" THEN Return("true")
                  ELSE IF fs[r.node].uid # 0 THEN Return("true")
                  ELSE Return("false")
  /\ UNCHANGED <<envVars, dispVars, walkVars, fdtab, dir_fd, elem, clsVars>>

FileIsUserControlled ==
  \/ FIUC_DirImmutable
  \/ FIUC_Open
  \/ FIUC_FileImmutable
  \/ FIUC_Close
  \/ FIUC_Statfs
  \/ FIUC_Fstat
  \/ FIUC_Fstatat

\* ------------------------------------------------------------ ResolveDirFd

\* SameProcessInformation: RootFileDescriptor opens "/", CwdFileDescriptor
\* opens ".", DupDirFileDescriptor is openat(fd, ".", flags)
ResolveDirFdDescriptorFirst(p, fd) ==
  IF FreeFds = {} THEN Err("EMFILE")
  ELSE IF ~fd.has_value \/ fd.value = AT_FDCWD
       THEN IF IsAbsolutePath(p) THEN Ok(RootNode) ELSE Ok(cwd)
  ELSE IF fd.value \notin DOMAIN fdtab THEN Err("EBADF")
  ELSE IF fs[fdtab[fd.value]].kind # "dir" THEN Err("ENOTDIR")
  ELSE Ok(fdtab[fd.value])

\* RemoteProcessInformation: the three operations open
\* /proc/<pid>/root, /proc/<pid>/root/<cwd_> and /proc/<pid>/fd/<fd> with
\* open(path, O_RDONLY), which opens a file of any kind; with fallback_ a
\* failed lookup of the root or the cwd is retried from the auditor's own root
RemoteDirFd(p, fd) ==
  LET first == IF ~proc_info.alive THEN Err("ENOENT")
               ELSE IF IsAbsolutePath(p) THEN Ok(proc_info.root)
               ELSE IF ~fd.has_value \/ fd.value = AT_FDCWD
               THEN KWalk(proc_info.root, StrSplit(proc_info.cwd_), MAXSYMLINKS, TRUE)
               ELSE IF fd.value \in DOMAIN proc_info.fds THEN Ok(proc_info.fds[fd.value])
               ELSE Err("ENOENT")
  IN IF first.err = "OK" \/ ~proc_info.fallback_ THEN first
     ELSE IF IsAbsolutePath(p) THEN Ok(RootNode)
     ELSE IF ~fd.has_value \/ fd.value = AT_FDCWD
     THEN KWalk(RootNode, StrSplit(proc_info.cwd_), MAXSYMLINKS, TRUE)
     ELSE first

ResolveDirFd(p, fd) ==
  IF FreeFds = {} THEN Err("EMFILE")
  ELSE IF proc_info.kind = "remote" THEN RemoteDirFd(p, fd)
  ELSE IF IsAbsolutePath(p) THEN Ok(RootNode)
  ELSE IF ~fd.has_value \/ fd.value = AT_FDCWD THEN Ok(cwd)
  ELSE IF fd.value \notin DOMAIN fdtab THEN Err("EBADF")
  ELSE IF fs[fdtab[fd.value]].kind # "dir" THEN Err("ENOTDIR")
  ELSE Ok(fdtab[fd.value])

\* ------------------------------------------------------------ PathIsUserControlled

\* the MakeCleanup of line 224 runs on every return after it: close(dir_fd)
WalkReturn(v) ==
  /\ fdtab' = CloseFd(fdtab, dir_fd)
  /\ Return(v)

\* lines 223-226: the initial descriptor and the component queue
PIUC_Resolve ==
  /\ pc = "PIUC"
  /\ \E fail \in FaultChoices :
       LET r == ResolveDirFd(wpath, at_fd)
       IN IF fail \/ r.err # "OK"
          THEN /\ faults' = IF fail THEN faults + 1 ELSE faults
               /\ kfail' = TRUE
               /\ Return("FAILED_PRECONDITION")
               /\ UNCHANGED <<fdtab, dir_fd, path_queue>>
          ELSE /\ dir_fd' = LowestFree
               /\ fdtab' = OpenAs(LowestFree, r.node)
               /\ path_queue' = StrSplit(wpath)
               /\ pc' = "PIUC_loop"
               /\ UNCHANGED <<faults, kfail, stack, ret>>
  /\ i' = 0
  /\ pops' = 0
  /\ UNCHANGED <<envVars, dispVars, walkArgs, elem, clsVars, sb, new_fd, link_buf>>

\* the loop condition of line 228
LoopContinuesInclusive(k, bound) == k <= bound
LoopContinues(k, bound) == k < bound

\* lines 228-241 and 326: the loop head, the pop, the skipped "."
PIUC_Loop ==
  /\ pc = "PIUC_loop"
  /\ IF ~LoopContinues(i, max_iteration_count)
     THEN /\ WalkReturn("RESOURCE_EXHAUSTED")
          /\ UNCHANGED <<path_queue, elem, i, pops>>
     ELSE IF path_queue = <<>>
     THEN /\ WalkReturn("false")
          /\ UNCHANGED <<path_queue, elem, i, pops>>
     ELSE /\ elem' = Head(path_queue)
          /\ path_queue' = Tail(path_queue)
          /\ pops' = pops + 1
          /\ IF Head(path_queue) = NameDot
             THEN /\ i' = i + 1
                  /\ UNCHANGED <<pc, stack>>
             ELSE /\ pc' = "FIUC"
                  /\ stack' = <<"PIUC_classified">> \o stack
                  /\ UNCHANGED i
          /\ UNCHANGED <<fdtab, ret>>
  /\ UNCHANGED <<envVars, dispVars, walkArgs, faults, kfail, dir_fd, clsVars, sb, new_fd, link_buf>>

\* lines 251-256: what a failed fstatat of the component makes the walk return
StatFailureAlwaysError(errno) == "FAILED_PRECONDITION"
StatFailure(errno) == IF errno # "ENOENT" THEN "FAILED_PRECONDITION" ELSE "false"

\* lines 241-257: the classifier's answer, then fstatat(AT_SYMLINK_NOFOLLOW)
PIUC_Stat ==
  /\ pc = "PIUC_classified"
  /\ \E fail \in FaultChoices :
       IF ret # "false"
       THEN /\ ~fail
            /\ WalkReturn(ret)
            /\ UNCHANGED <<faults, kfail, sb>>
       ELSE LET r == KStatNoFollow(dir_fd, elem)
                errno == IF fail THEN "EIO" ELSE r.err
            IN IF errno # "OK"
               THEN /\ faults' = IF fail THEN faults + 1 ELSE faults
                    /\ kfail' = (kfail \/ errno # "ENOENT")
                    /\ WalkReturn(StatFailure(errno))
                    /\ UNCHANGED sb
               ELSE /\ UNCHANGED <<faults, kfail>>
                    /\ sb' = fs[r.node].kind
                    /\ pc' = IF fs[r.node].kind = "lnk" THEN "PIUC_statfs" ELSE "PIUC_switch"
                    /\ UNCHANGED <<fdtab, stack, ret>>
  /\ UNCHANGED <<envVars, dispVars, walkArgs, dir_fd, elem, clsVars, path_queue, i, new_fd, link_buf, pops>>

\* fs_buf.f_type == PROC_SUPER_MAGIC, line 269
OnProcfsNever(f_type) == FALSE
OnProcfs(f_type) == f_type = "proc"

\* lines 262-268: fstatfs(dir_fd) for a symlink
PIUC_Statfs ==
  /\ pc = "PIUC_statfs"
  /\ \E fail \in FaultChoices :
       IF fail
       THEN /\ faults' = faults + 1
            /\ kfail' = TRUE
            /\ WalkReturn("FAILED_PRECONDITION")
       ELSE /\ pc' = IF OnProcfs(fs[fdtab[dir_fd]].fstype) THEN "PIUC_restat" ELSE "PIUC_switch"
            /\ UNCHANGED <<faults, kfail, fdtab, stack, ret>>
  /\ UNCHANGED <<envVars, dispVars, walkVars, dir_fd, elem, clsVars>>

\* lines 269-273: in procfs the link is followed by a second fstatat
PIUC_Restat ==
  /\ pc = "PIUC_restat"
  /\ \E fail \in FaultChoices :
       LET r == IF dir_fd \in DOMAIN fdtab
                THEN KWalk(fdtab[dir_fd], <<elem>>, MAXSYMLINKS, TRUE)
                ELSE Err("EBADF")
       IN IF fail \/ r.err # "OK"
          THEN /\ faults' = IF fail THEN faults + 1 ELSE faults
               /\ kfail' = TRUE
               /\ WalkReturn("FAILED_PRECONDITION")
               /\ UNCHANGED sb
          ELSE /\ sb' = fs[r.node].kind
               /\ pc' = "PIUC_switch"
               /\ UNCHANGED <<faults, kfail, fdtab, stack, ret>>
  /\ UNCHANGED <<envVars, dispVars, walkArgs, dir_fd, elem, clsVars, path_queue, i, new_fd, link_buf, pops>>

\* lines 277-283: case S_IFDIR, openat(dir_fd, elem)
PIUC_Openat ==
  /\ pc = "PIUC_switch"
  /\ sb = "dir"
  /\ \E fail \in FaultChoices :
       LET r == KOpenat(dir_fd, elem)
       IN IF fail \/ r.err # "OK"
          THEN /\ faults' = IF fail THEN faults + 1 ELSE faults
               /\ kfail' = TRUE
               /\ WalkReturn("FAILED_PRECONDITION")
               /\ UNCHANGED new_fd
          ELSE /\ new_fd' = LowestFree
               /\ fdtab' = OpenAs(LowestFree, r.node)
               /\ pc' = "PIUC_chdir"
               /\ UNCHANGED <<faults, kfail, stack, ret>>
  /\ UNCHANGED <<envVars, dispVars, walkArgs, dir_fd, elem, clsVars, path_queue, i, sb, link_buf, pops>>

\* where the components of a link go in the queue (line 313)
AppendToQueue(link_queue, queue) == queue \o link_queue
Prepend(link_queue, queue) == link_queue \o queue

\* lines 284-286 and 307-314: close(dir_fd); dir_fd = new_fd; for a link,
\* its components go to the front of the queue; then i++
PIUC_Chdir ==
  /\ pc \in {"PIUC_chdir", "PIUC_root_close"}
  /\ fdtab' = CloseFd(fdtab, dir_fd)
  /\ dir_fd' = new_fd
  /\ path_queue' = IF pc = "PIUC_root_close" THEN Prepend(StrSplit(link_buf), path_queue)
                   ELSE path_queue
  /\ i' = i + 1
  /\ pc' = "PIUC_loop"
  /\ UNCHANGED <<envVars, dispVars, walkArgs, faults, kfail, stack, ret, elem, clsVars, sb, new_fd,
                 link_buf, pops>>


\* the size of link_buf (line 290), scaled down
PATH_MAX == 8

\* readlinkat fills at most the buffer and returns the bytes placed in it
ReadlinkLen(target) == IF Len(target) < PATH_MAX THEN Len(target) ELSE PATH_MAX

\* (size_t)link_len >= link_buf.memsize(), line 297
LinkTooLongNever(link_len) == FALSE
LinkTooLong(link_len) == link_len >= PATH_MAX

\* lines 288-315: case S_IFLNK, readlinkat(dir_fd, elem)
PIUC_Readlink ==
  /\ pc = "PIUC_switch"
  /\ sb = "lnk"
  /\ \E fail \in FaultChoices :
       LET r == KStatNoFollow(dir_fd, elem)
       IN IF fail \/ r.err # "OK" \/ (r.err = "OK" /\ fs[r.node].kind # "lnk")
               \/ LinkTooLong(ReadlinkLen(fs[r.node].target))
          THEN /\ faults' = IF fail THEN faults + 1 ELSE faults
               /\ kfail' = TRUE
               /\ WalkReturn("FAILED_PRECONDITION")
               /\ UNCHANGED <<link_buf, path_queue, i>>
          ELSE /\ link_buf' = fs[r.node].target
               /\ IF IsAbsolutePath(fs[r.node].target)
                  THEN /\ pc' = "PIUC_root"
                       /\ UNCHANGED <<path_queue, i>>
                  ELSE /\ path_queue' = Prepend(StrSplit(fs[r.node].target), path_queue)
                       /\ i' = i + 1
                       /\ pc' = "PIUC_loop"
               /\ UNCHANGED <<faults, kfail, fdtab, stack, ret>>
  /\ UNCHANGED <<envVars, dispVars, walkArgs, dir_fd, elem, clsVars, sb, new_fd, pops>>

\* lines 304-306: an absolute link, proc_info.RootFileDescriptor
PIUC_Root ==
  /\ pc = "PIUC_root"
  /\ \E fail \in FaultChoices :
       IF fail \/ ResolveDirFd(<<Slash>>, NoAtFd).err # "OK"
       THEN /\ faults' = IF fail THEN faults + 1 ELSE faults
            /\ kfail' = TRUE
            /\ WalkReturn("FAILED_PRECONDITION")
            /\ UNCHANGED new_fd
       ELSE /\ new_fd' = LowestFree
            /\ fdtab' = OpenAs(LowestFree, ResolveDirFd(<<Slash>>, NoAtFd).node)
            /\ pc' = "PIUC_root_close"
            /\ UNCHANGED <<faults, kfail, stack, ret>>
  /\ UNCHANGED <<envVars, dispVars, walkArgs, dir_fd, elem, clsVars, path_queue, i, sb, link_buf, pops>>

\* lines 318-322: what the walk returns at a terminal node
TerminalNodeAlwaysFalse(queue) == "false"
TerminalNode(queue) == IF queue # <<>> THEN "FAILED_PRECONDITION" ELSE "false"

\* lines 317-322: neither a directory nor a link
PIUC_Other ==
  /\ pc = "PIUC_switch"
  /\ sb \notin {"dir", "lnk"}
  /\ WalkReturn(TerminalNode(path_queue))
  /\ UNCHANGED <<envVars, dispVars, walkVars, faults, kfail, dir_fd, elem, clsVars>>

PathIsUserControlled ==
  \/ PIUC_Resolve
  \/ PIUC_Loop
  \/ PIUC_Stat
  \/ PIUC_Statfs
  \/ PIUC_Restat
  \/ PIUC_Openat
  \/ PIUC_Chdir
  \/ PIUC_Readlink
  \/ PIUC_Root
  \/ PIUC_Other

\* ------------------------------------------------------------ FileIsUserWritable

\* fstatat(fd, file, 0): the kernel resolves the whole path, links followed
KStatPath(fd, file) ==
  IF fd \notin DOMAIN fdtab THEN Err("EBADF")
  ELSE IF file = <<>> THEN Err("ENOENT")
  ELSE KWalk(IF IsAbsolutePath(file) THEN RootNode ELSE fdtab[fd],
             StrSplit(file), MAXSYMLINKS, TRUE)

\* line 100: ResolveDirFd
FIUW_Resolve ==
  /\ pc = "FIUW"
  /\ \E fail \in FaultChoices :
       LET r == ResolveDirFd(wpath, at_fd)
       IN IF fail \/ r.err # "OK"
          THEN /\ faults' = IF fail THEN faults + 1 ELSE faults
               /\ kfail' = TRUE
               /\ Return("FAILED_PRECONDITION")
               /\ UNCHANGED <<fdtab, dir_fd>>
          ELSE /\ dir_fd' = LowestFree
               /\ fdtab' = OpenAs(LowestFree, r.node)
               /\ pc' = "FIUW_stat"
               /\ UNCHANGED <<faults, kfail, stack, ret>>
  /\ UNCHANGED <<envVars, dispVars, walkVars, elem, clsVars>>

WritableVerdictModeOnly(st) ==
  IF st.kind # "reg" THEN "false"
  ELSE IF (st.gid # 0 /\ HasBit(st.mode, S_IWGRP)) \/ HasBit(st.mode, S_IWOTH) THEN "true"
  ELSE "false"

WritableVerdictAnyKind(st) ==
  IF st.uid # 0 THEN "true"
  ELSE IF (st.gid # 0 /\ HasBit(st.mode, S_IWGRP)) \/ HasBit(st.mode, S_IWOTH) THEN "true"
  ELSE "false"

\* lines 113-127: the verdict on the stat of the file
WritableVerdict(st) ==
  IF st.kind # "reg" THEN "false"
  ELSE IF st.uid # 0 THEN "true"
  ELSE IF (st.gid # 0 /\ HasBit(st.mode, S_IWGRP)) \/ HasBit(st.mode, S_IWOTH) THEN "true"
  ELSE "false"

\* lines 101-127: fstatat(dir_fd, file, 0), the verdict, and close(dir_fd)
FIUW_Stat ==
  /\ pc = "FIUW_stat"
  /\ \E fail \in FaultChoices :
       LET r == KStatPath(dir_fd, wpath)
       IN IF fail \/ r.err \notin {"OK", "ENOENT"}
          THEN /\ faults' = IF fail THEN faults + 1 ELSE faults
               /\ kfail' = TRUE
               /\ WalkReturn("FAILED_PRECONDITION")
          ELSE /\ UNCHANGED <<faults, kfail>>
               /\ IF r.err = "ENOENT"
                  THEN WalkReturn("false")
                  ELSE WalkReturn(WritableVerdict(fs[r.node]))
  /\ UNCHANGED <<envVars, dispVars, walkVars, dir_fd, elem, clsVars>>

FileIsUserWritable == FIUW_Resolve \/ FIUW_Stat

\* ------------------------------------------------------------ ProcessInformation

\* the auditing process itself: no pid, cwd string or fallback is kept
SameProcessInformation ==
  [kind |-> "same", alive |-> TRUE, cwd_ |-> <<>>, fallback_ |-> FALSE,
   root |-> RootNode, fds |-> <<>>]

\* RemoteProcessInformation(pid, cwd, cmdline, fallback): alive says whether
\* /proc/<pid> exists, root is the directory behind /proc/<pid>/root and fds
\* the files behind /proc/<pid>/fd/<n>
RemoteProcessInformation(alive, cwdstr, fallback, root, fds) ==
  [kind |-> "remote", alive |-> alive, cwd_ |-> cwdstr, fallback_ |-> fallback,
   root |-> root, fds |-> fds]

\* a StatusOr that holds a value, and one that holds the error
Holds(v) == [ok |-> TRUE, value |-> v]
FailedPreconditionError == [ok |-> FALSE, value |-> "FAILED_PRECONDITION"]

\* lines 31-38: open(path, open_flags) with kDirOpenFlags = O_RDONLY, where r
\* is what the kernel resolves the path to; a file of any kind opens
OpenFile(r) ==
  \E fail \in FaultChoices :
    IF fail \/ r.err # "OK" \/ FreeFds = {}
    THEN /\ faults' = IF fail THEN faults + 1 ELSE faults
         /\ kfail' = TRUE
         /\ ret' = FailedPreconditionError
         /\ UNCHANGED fdtab
    ELSE /\ fdtab' = OpenAs(LowestFree, r.node)
         /\ ret' = Holds(LowestFree)
         /\ UNCHANGED <<faults, kfail>>

\* lines 47-51: a path below /proc/<pid> resolves only while the pid exists
OpenFileInProc(r) == OpenFile(IF proc_info.alive THEN r ELSE Err("ENOENT"))

\* the kernel's resolution of a path given to open() by the auditor
KOpenPath(file) ==
  IF file = <<>> THEN Err("ENOENT")
  ELSE KWalk(IF IsAbsolutePath(file) THEN RootNode ELSE cwd, StrSplit(file), MAXSYMLINKS, TRUE)

\* JoinPath("root", cwd_) below /proc/<pid>: the components of cwd_ from the
\* auditee's root
KOpenInRoot(file) == KWalk(proc_info.root, StrSplit(file), MAXSYMLINKS, TRUE)

\* lines 67 and 76: if (maybe_fd.ok() || !fallback_) return maybe_fd;
ReturnsFirstAlwaysRetry(maybe_fd, fallback) == maybe_fd.ok
ReturnsFirst(maybe_fd, fallback) == maybe_fd.ok \/ ~fallback

procUnchanged == <<envVars, dispVars, walkVars, clsVars, stack, dir_fd, elem>>

\* lines 53-56: RemoteProcessInformation::DupDirFileDescriptor
Remote_DupDirFileDescriptor ==
  /\ pc = "DupDirFileDescriptor"
  /\ proc_info.kind = "remote"
  /\ OpenFileInProc(IF at_fd.value \in DOMAIN proc_info.fds
                    THEN Ok(proc_info.fds[at_fd.value]) ELSE Err("ENOENT"))
  /\ pc' = "done"
  /\ UNCHANGED procUnchanged

\* lines 58-66: RemoteProcessInformation::CwdFileDescriptor, the /proc lookup
Remote_CwdFileDescriptor ==
  /\ pc = "CwdFileDescriptor"
  /\ proc_info.kind = "remote"
  /\ OpenFileInProc(KOpenInRoot(proc_info.cwd_))
  /\ pc' = IF ReturnsFirst(ret', proc_info.fallback_) THEN "done" ELSE "Cwd_fallback"
  /\ UNCHANGED procUnchanged

\* lines 68-69: the fallback, open(cwd_)
Remote_CwdFallback ==
  /\ pc = "Cwd_fallback"
  /\ OpenFile(KOpenPath(proc_info.cwd_))
  /\ pc' = "done"
  /\ UNCHANGED procUnchanged

\* lines 72-76: RemoteProcessInformation::RootFileDescriptor, the /proc lookup
Remote_RootFileDescriptor ==
  /\ pc = "RootFileDescriptor"
  /\ proc_info.kind = "remote"
  /\ OpenFileInProc(Ok(proc_info.root))
  /\ pc' = IF ReturnsFirst(ret', proc_info.fallback_) THEN "done" ELSE "Root_fallback"
  /\ UNCHANGED procUnchanged

\* lines 77-78: the fallback, open("/")
Remote_RootFallback ==
  /\ pc = "Root_fallback"
  /\ OpenFile(Ok(RootNode))
  /\ pc' = "done"
  /\ UNCHANGED procUnchanged

\* lines 89-97: SameProcessInformation::DupDirFileDescriptor, openat(fd, ".")
Same_DupDirFileDescriptor ==
  /\ pc = "DupDirFileDescriptor"
  /\ proc_info.kind = "same"
  /\ OpenFile(KOpenat(at_fd.value, NameDot))
  /\ pc' = "done"
  /\ UNCHANGED procUnchanged

\* lines 99-102: SameProcessInformation::CwdFileDescriptor, open(".")
Same_CwdFileDescriptor ==
  /\ pc = "CwdFileDescriptor"
  /\ proc_info.kind = "same"
  /\ OpenFile(Ok(cwd))
  /\ pc' = "done"
  /\ UNCHANGED procUnchanged

\* lines 104-107: SameProcessInformation::RootFileDescriptor, open("/")
Same_RootFileDescriptor ==
  /\ pc = "RootFileDescriptor"
  /\ proc_info.kind = "same"
  /\ OpenFile(Ok(RootNode))
  /\ pc' = "done"
  /\ UNCHANGED procUnchanged

\* ------------------------------------------------------------ FileEvent

\* FileEvent::Arg(idx) and FileEvent::PathArg(idx): idx < size, or out of range
HasArg(e, idx) == idx < Len(e.args)
Arg(e, idx) == e.args[idx + 1]
HasPathArg(e, idx) == idx < Len(e.path_args)
PathArg(e, idx) == e.path_args[idx + 1]

\* the parameter is a size_t: the caller's int converts modulo SIZE_MAX + 1
\* (the model's size_t is 16 bits wide; no argument list is that long)
SIZE_MAX == 65535
ToSizeTMagnitude(n) == IF n < 0 THEN 0 - n ELSE n
ToSizeT(n) == n % (SIZE_MAX + 1)

OutOfRangeError == [ok |-> FALSE, value |-> "OUT_OF_RANGE"]

\* an event.Arg that answers 0 for an index past the end
ArgStatusZeroWhenMissing(e, n) ==
  IF HasArg(e, ToSizeT(n)) THEN Holds(Arg(e, ToSizeT(n))) ELSE Holds(0)

\* file_event.cc lines 23-29: event.Arg(n), as a StatusOr
ArgStatus(e, n) ==
  IF HasArg(e, ToSizeT(n)) THEN Holds(Arg(e, ToSizeT(n))) ELSE OutOfRangeError

\* file_event.cc lines 31-37: event.PathArg(n), as a StatusOr
PathArgStatus(e, n) ==
  IF HasPathArg(e, ToSizeT(n)) THEN Holds(PathArg(e, ToSizeT(n))) ELSE OutOfRangeError

\* what PATHAUDITOR_ASSIGN_OR_RETURN(x, event.Arg(idx)) leaves in x
ArgValue(e, idx) == ArgStatus(e, idx).value

\* a caller evaluates event.Arg(call_idx)
CallArg ==
  /\ pc = "access"
  /\ ret' = ArgStatus(event, call_idx)
  /\ pc' = "Arg_done"
  /\ UNCHANGED <<envVars, dispVars, walkVars, clsVars, fdtab, faults, kfail, stack, dir_fd, elem>>

\* a caller evaluates event.PathArg(call_idx)
CallPathArg ==
  /\ pc = "access"
  /\ ret' = PathArgStatus(event, call_idx)
  /\ pc' = "PathArg_done"
  /\ UNCHANGED <<envVars, dispVars, walkVars, clsVars, fdtab, faults, kfail, stack, dir_fd, elem>>

\* ------------------------------------------------------------ FileEventIsUserControlled

O_WRONLY == 1
O_CREAT == 64
O_EXCL == 128
O_TRUNC == 512
O_NOFOLLOW == 131072
AT_SYMLINK_NOFOLLOW == 256
AT_SYMLINK_FOLLOW == 1024
AT_EMPTY_PATH == 4096
UMOUNT_NOFOLLOW == 8
MS_BIND == 4096
MS_MOVE == 8192

PlainSyscalls ==
  {"chmod", "chown", "chdir", "rmdir", "uselib", "swapon", "chroot", "creat", "truncate"}
NoFollowSyscalls == {"unlink", "mknod", "mkdir", "lchown"}
NoFollowAtSyscalls == {"unlinkat", "mknodat", "mkdirat"}
ExecSyscalls == {"execve", "execveat"}
SecondarySyscalls ==
  {"rename", "renameat", "renameat2", "link", "symlink", "linkat", "symlinkat", "mount"}
SupportedSyscalls ==
  PlainSyscalls \cup NoFollowSyscalls \cup NoFollowAtSyscalls \cup ExecSyscalls
    \cup SecondarySyscalls
    \cup {"open", "openat", "fchmodat", "fchownat", "umount2", "name_to_handle_at"}

\* the numeric arguments each case of the switch reads
ArgsRead(nr) ==
  CASE nr \in NoFollowAtSyscalls \cup {"fchmodat"} -> {0}
    [] nr = "open" -> {1}
    [] nr = "openat" -> {0, 2}
    [] nr \in {"fchownat", "execveat"} -> {0, 4}
    [] nr = "umount2" -> {1}
    [] nr = "name_to_handle_at" -> {4}
    [] nr \in {"renameat", "renameat2"} -> {0, 2}
    [] nr = "linkat" -> {0, 2, 4}
    [] nr = "symlinkat" -> {1}
    [] nr = "mount" -> {3}
    [] OTHER -> {}

\* the case reads path argument 1 as well
ReadsPathArg1(nr) == nr \in SecondarySyscalls

\* fd_arg
FdArgOf(e) ==
  IF e.syscall_nr \in NoFollowAtSyscalls
       \cup {"openat", "fchmodat", "fchownat", "execveat", "renameat", "renameat2", "linkat"}
  THEN SomeFd(ArgValue(e, 0))
  ELSE NoAtFd

\* flags
FlagsOf(e) ==
  CASE e.syscall_nr \in {"open", "umount2"} -> ArgValue(e, 1)
    [] e.syscall_nr = "openat" -> ArgValue(e, 2)
    [] e.syscall_nr \in {"fchownat", "execveat", "name_to_handle_at", "linkat"} -> ArgValue(e, 4)
    [] e.syscall_nr = "mount" -> ArgValue(e, 3)
    [] OTHER -> 0

SkipLastAlways(e) == TRUE
SkipLastNever(e) == FALSE

\* a dispatcher that leaves the final component to a creating open as well
SkipLastWhenCreating(e) ==
  LET nr == e.syscall_nr
      fl == FlagsOf(e)
  IN CASE nr \in NoFollowSyscalls \cup NoFollowAtSyscalls \cup {"rename", "renameat", "renameat2"}
            -> TRUE
       [] nr \in {"open", "openat"}
            -> HasBit(fl, O_NOFOLLOW) \/ HasBit(fl, O_EXCL) \/ HasBit(fl, O_CREAT)
       [] nr \in {"fchownat", "execveat"} -> HasBit(fl, AT_SYMLINK_NOFOLLOW)
       [] nr = "umount2" -> HasBit(fl, UMOUNT_NOFOLLOW)
       [] nr \in {"name_to_handle_at", "linkat"} -> ~HasBit(fl, AT_SYMLINK_FOLLOW)
       [] OTHER -> FALSE

\* skip_last_element
SkipLast(e) ==
  LET nr == e.syscall_nr
      fl == FlagsOf(e)
  IN CASE nr \in NoFollowSyscalls \cup NoFollowAtSyscalls \cup {"rename", "renameat", "renameat2"}
            -> TRUE
       [] nr \in {"open", "openat"} -> HasBit(fl, O_NOFOLLOW) \/ HasBit(fl, O_EXCL)
       [] nr \in {"fchownat", "execveat"} -> HasBit(fl, AT_SYMLINK_NOFOLLOW)
       [] nr = "umount2" -> HasBit(fl, UMOUNT_NOFOLLOW)
       [] nr \in {"name_to_handle_at", "linkat"} -> ~HasBit(fl, AT_SYMLINK_FOLLOW)
       [] OTHER -> FALSE

\* flags & AT_EMPTY_PATH && path.empty()
EmptyPathCaseFlagClear(e) == ~HasBit(FlagsOf(e), AT_EMPTY_PATH) /\ PathArg(e, 0) = <<>>
EmptyPathCase(e) == HasBit(FlagsOf(e), AT_EMPTY_PATH) /\ PathArg(e, 0) = <<>>

\* the path of the secondary walk
SecondaryPathFirstArg(e) ==
  IF e.syscall_nr = "mount" THEN PathArg(e, 0) ELSE Dirname(PathArg(e, 0))

SecondaryPath(e) ==
  IF e.syscall_nr = "mount" THEN PathArg(e, 1) ELSE Dirname(PathArg(e, 1))

\* the descriptor of the old path taken for the new one
SecondaryFdOfOldPath(e) ==
  CASE e.syscall_nr \in {"renameat", "renameat2", "linkat"} -> SomeFd(ArgValue(e, 0))
    [] e.syscall_nr = "symlinkat" -> SomeFd(ArgValue(e, 1))
    [] OTHER -> NoAtFd

\* the at_fd of the secondary walk
SecondaryFd(e) ==
  CASE e.syscall_nr \in {"renameat", "renameat2", "linkat"} -> SomeFd(ArgValue(e, 2))
    [] e.syscall_nr = "symlinkat" -> SomeFd(ArgValue(e, 1))
    [] OTHER -> NoAtFd

\* the call of a walk or of the direct check
Call(kind, target, p, fd, cont) ==
  /\ wpath' = p
  /\ at_fd' = fd
  /\ max_iteration_count' = DefaultMaxIterationCount
  /\ walks' = Append(walks, <<kind, p, fd>>)
  /\ pc' = target
  /\ stack' = cont \o stack
  /\ UNCHANGED ret

\* lines 533-535: path = std::string(Dirname(path)) assigns the dispatcher's own
\* string, a copy made at line 332; the const FileEvent keeps its path argument
EventAfterStripInPlace(e) == [e EXCEPT !.path_args[1] = Dirname(@)]
EventAfterStrip(e) == e

\* this step calls the primary walk
StartsPrimaryWalk == Len(walks') > Len(walks) /\ walks'[Len(walks')][1] = "primary"

\* lines 533-537: the primary walk, whose result is the dispatcher's
PrimaryWalk(e) ==
  Call("primary", "PIUC",
       IF SkipLast(e) THEN Dirname(PathArg(e, 0)) ELSE PathArg(e, 0), FdArgOf(e), <<>>)

ReturnNoCall(v) ==
  /\ Return(v)
  /\ UNCHANGED <<wpath, at_fd, max_iteration_count, walks>>

\* lines 332-531: the arguments, the early returns, the first call
FEIUC_Entry ==
  /\ pc = "FEIUC"
  /\ LET nr == event.syscall_nr
     IN IF ~HasPathArg(event, 0) THEN ReturnNoCall("OUT_OF_RANGE")
        ELSE IF nr \notin SupportedSyscalls THEN ReturnNoCall("UNIMPLEMENTED")
        ELSE IF (\E k \in ArgsRead(nr) : ~ArgStatus(event, k).ok)
                  \/ (ReadsPathArg1(nr) /\ ~HasPathArg(event, 1))
        THEN ReturnNoCall("OUT_OF_RANGE")
        ELSE IF nr \in {"fchownat", "execveat", "name_to_handle_at"} /\ EmptyPathCase(event)
        THEN ReturnNoCall("false")
        ELSE IF nr \in ExecSyscalls
        THEN Call("direct", "FIUW", PathArg(event, 0), FdArgOf(event), <<"FEIUC_after">>)
        ELSE IF nr \in SecondarySyscalls
        THEN Call("secondary", "PIUC", SecondaryPath(event), SecondaryFd(event),
                  <<"FEIUC_after">>)
        ELSE PrimaryWalk(event)
  /\ path' = IF HasPathArg(event, 0) THEN PathArg(event, 0) ELSE path
  /\ IF HasPathArg(event, 0) /\ \A k \in ArgsRead(event.syscall_nr) : ArgStatus(event, k).ok
     THEN /\ fd_arg' = FdArgOf(event)
          /\ flags' = FlagsOf(event)
          /\ skip_last_element' = SkipLast(event)
     ELSE UNCHANGED <<fd_arg, flags, skip_last_element>>
  /\ event' = IF StartsPrimaryWalk /\ SkipLast(event) THEN EventAfterStrip(event) ELSE event
  /\ UNCHANGED <<envVars, sec_ret,
                 fdtab, faults, kfail, dir_fd, elem, clsVars, path_queue, i, sb, new_fd,
                 link_buf, pops>>

\* result.ok() && *result
IsPositiveInverted(r) == r = "false"
IsPositive(r) == r = "true"

\* after the secondary walk or the direct check: return true on a positive
\* answer, else the case's own early returns, else the primary walk
FEIUC_After ==
  /\ pc = "FEIUC_after"
  /\ sec_ret' = ret
  /\ LET nr == event.syscall_nr
     IN IF IsPositive(ret) THEN ReturnNoCall("true")
        ELSE IF nr \in {"symlink", "symlinkat"} THEN ReturnNoCall("false")
        ELSE IF nr = "mount" /\ ~(HasBit(FlagsOf(event), MS_BIND) \/ HasBit(FlagsOf(event), MS_MOVE))
        THEN ReturnNoCall("false")
        ELSE IF nr = "linkat" /\ EmptyPathCase(event) THEN ReturnNoCall("false")
        ELSE PrimaryWalk(event)
  /\ event' = IF StartsPrimaryWalk /\ SkipLast(event) THEN EventAfterStrip(event) ELSE event
  /\ UNCHANGED <<envVars, path, fd_arg, flags, skip_last_element,
                 fdtab, faults, kfail, dir_fd, elem, clsVars, path_queue, i, sb, new_fd,
                 link_buf, pops>>

FileEventIsUserControlled == FEIUC_Entry \/ FEIUC_After

vars == <<fs, cwd, fdtab, fdtab0, faults, kfail, pc, stack, ret,
          dir_fd, elem, file_fd, file_is_immutable,
          wpath, at_fd, max_iteration_count, path_queue, i, sb, new_fd, link_buf, pops,
          event, path, fd_arg, skip_last_element, flags, sec_ret, walks, creat_ret, call_idx,
          proc_info,
          sanitizing, frames, dispatched, syslog_lines, stderr_lines, origs, test_env,
          macro_steps, macro_pc, macro_locals, macro_ret, macro_run>>

\* no dispatcher call in progress
NoEvent ==
  /\ event = [syscall_nr |-> "none", args |-> <<>>, path_args |-> <<>>]
  /\ path = <<>>
  /\ fd_arg = NoAtFd
  /\ skip_last_element = FALSE
  /\ flags = 0
  /\ sec_ret = "none"
  /\ walks = <<>>

\* ------------------------------------------------------------ status macros

MaxSteps == 3
NumTargets == 2

\* a local that no step has assigned yet
Unassigned == -1

\* OkStatus(), StatusOr<int>(v), Status(kUnknown, msg), StatusOr<int>(Status(kUnknown, msg))
OkStatus == [ok |-> TRUE, status |-> "OK", value |-> 0]
StatusOrValue(v) == [ok |-> TRUE, status |-> "OK", value |-> v]
StatusError(msg) == [ok |-> FALSE, status |-> msg, value |-> 0]

\* ABSL_PREDICT_FALSE(!status.ok()), ABSL_PREDICT_FALSE(!statusor.ok())
StepReturnsNever(x) == FALSE
StepReturns(x) == ~x.ok

\* lhs = std::move(statusor).ValueOrDie()
Assign(locals, target, x) == [locals EXCEPT ![target] = x.value]

\* no function built from the macros is running
NoMacro ==
  /\ macro_steps = <<>>
  /\ macro_pc = 0
  /\ macro_locals = <<>>
  /\ macro_ret = "none"
  /\ macro_run = <<>>

\* ------------------------------------------------------------ the libc shims

NumThreads == 2
MaxCalls == 2

Threads == 1 .. NumThreads

\* no intercepted call in progress, nothing reported
NoLibc ==
  /\ sanitizing = [t \in Threads |-> FALSE]
  /\ frames = [t \in Threads |-> <<>>]
  /\ dispatched = <<>>
  /\ syslog_lines = <<>>
  /\ stderr_lines = <<>>
  /\ origs = <<>>
  /\ test_env = FALSE

\* the shims that build a FileEvent and call LibcFileEventIsUserControlled
AuditedCalls == {"open", "openat", "execl", "execv", "execve"}

\* execle, execvp and execlp forward without an audit
UnauditedCalls == {"execle", "execvp", "execlp"}

\* the argv array execl builds from its variable arguments, as one value
ArgvOf(a) == <<"argv">> \o [k \in 1 .. (Len(a) - 1) |-> a[k + 1][1]]

\* what a shim hands to the original function: [fn, args]
OrigCall(fn, a) ==
  CASE fn = "execl" -> [fn |-> "execve", args |-> <<a[1], ArgvOf(a), <<"nullptr">>>>]
    [] fn \in {"execle", "execlp"} -> [fn |-> fn, args |-> SubSeq(a, 1, 2)]
    [] OTHER -> [fn |-> fn, args |-> a]

\* if (sanitizing) return;  the flag read is the calling thread's own
GuardFlagAnyThread(t) == \E u \in Threads : sanitizing[u]
GuardFlag(t) == sanitizing[t]

\* what FileEventIsUserControlled can return to the shim
AuditOutcomes == {"true", "false", "FAILED_PRECONDITION"}

Top(t) == frames[t][Len(frames[t])]
SetTop(t, f) == [frames EXCEPT ![t] = [@ EXCEPT ![Len(@)] = f]]
coreVars == <<fs, cwd, fdtab, fdtab0, faults, kfail, pc, stack, ret, dir_fd, elem,
              clsVars, walkVars, dispVars, call_idx, proc_info, creat_ret>>

\* calls the program makes; every argument is kept as the words the caller wrote
TopCalls ==
  { [fn |-> "open", args |-> <<<<"/a/a">>, <<"O_RDONLY">>, <<"0">>>>],
    [fn |-> "execve", args |-> <<<<"/a/a">>, <<"argv">>, <<"envp">>>>],
    [fn |-> "execv", args |-> <<<<"/a/a">>, <<"argv">>>>],
    [fn |-> "execl", args |-> <<<<"/a/a">>, <<"arg0">>, <<"arg1">>, <<"NULL">>>>],
    [fn |-> "execle", args |-> <<<<"/a/a">>, <<"arg0">>, <<"arg1">>, <<"NULL">>, <<"envp">>>>],
    [fn |-> "execvp", args |-> <<<<"a">>, <<"argv">>>>],
    [fn |-> "execlp", args |-> <<<<"a">>, <<"arg0">>, <<"arg1">>, <<"NULL">>>>] }

\* the calls the auditor and the reporting make through libc themselves
NestedCalls ==
  { [fn |-> "openat", args |-> <<<<"3">>, <<"a">>, <<"O_RDONLY">>, <<"0">>>>] }

NewFrame(c) == [fn |-> c.fn, args |-> c.args, pc |-> "entry", audited |-> FALSE,
                outcome |-> "none", nested |-> FALSE]

\* the intercepted calls the program has started so far
CallsStarted ==
  Cardinality({k \in 1 .. Len(origs) : origs[k].depth = 1})
    + Cardinality({t \in Threads : frames[t] # <<>>})

\* the program calls an intercepted function
LibcCall(t) ==
  /\ frames[t] = <<>>
  /\ CallsStarted < MaxCalls
  /\ \E c \in TopCalls : frames' = [frames EXCEPT ![t] = <<NewFrame(c)>>]
  /\ UNCHANGED <<coreVars, macroVars, sanitizing, dispatched, syslog_lines, stderr_lines, origs, test_env>>

\* the dispatcher or the reporting, running on thread t, calls an intercepted function
NestedCall(t) ==
  /\ Len(frames[t]) = 1
  /\ Top(t).pc \in {"dispatch", "LogInsecureAccess"}
  /\ ~Top(t).nested
  /\ \E c \in NestedCalls :
       frames' = [frames EXCEPT ![t] = <<[@[1] EXCEPT !.nested = TRUE], NewFrame(c)>>]
  /\ UNCHANGED <<coreVars, macroVars, sanitizing, dispatched, syslog_lines, stderr_lines, origs, test_env>>

\* LibcFileEventIsUserControlled, up to the dispatcher call
Guard(t) ==
  /\ frames[t] # <<>>
  /\ Top(t).pc = "entry"
  /\ IF Top(t).fn \in UnauditedCalls \/ GuardFlag(t)
       THEN /\ frames' = SetTop(t, [Top(t) EXCEPT !.pc = "orig"])
            /\ UNCHANGED sanitizing
       ELSE /\ sanitizing' = [sanitizing EXCEPT ![t] = TRUE]
            /\ frames' = SetTop(t, [Top(t) EXCEPT !.pc = "dispatch", !.audited = TRUE])
  /\ UNCHANGED <<coreVars, macroVars, dispatched, syslog_lines, stderr_lines, origs, test_env>>

\* result = FileEventIsUserControlled(SameProcessInformation(), file_event)
Dispatch(t) ==
  /\ frames[t] # <<>>
  /\ Top(t).pc = "dispatch"
  /\ \E o \in AuditOutcomes :
       frames' = SetTop(t, [Top(t) EXCEPT !.outcome = o,
                                          !.pc = CASE o = "true" -> "LogInsecureAccess"
                                                   [] o = "false" -> "clear"
                                                   [] OTHER -> "LogError"])
  /\ dispatched' = Append(dispatched, [thread |-> t, fn |-> Top(t).fn, depth |-> Len(frames[t])])
  /\ UNCHANGED <<coreVars, macroVars, sanitizing, syslog_lines, stderr_lines, origs, test_env>>

\* LogError(result.status())
LogError(t) ==
  /\ frames[t] # <<>>
  /\ Top(t).pc = "LogError"
  /\ syslog_lines' = Append(syslog_lines,
       [thread |-> t, text |-> "Cannot audit: ", detail |-> Top(t).outcome])
  /\ frames' = SetTop(t, [Top(t) EXCEPT !.pc = "clear"])
  /\ UNCHANGED <<coreVars, macroVars, sanitizing, dispatched, stderr_lines, origs, test_env>>

\* LogInsecureAccess(file_event, function_name)
LogInsecureAccess(t) ==
  /\ frames[t] # <<>>
  /\ Top(t).pc = "LogInsecureAccess"
  /\ IF test_env
       THEN /\ stderr_lines' = Append(stderr_lines,
                 [thread |-> t, text |-> "AUDITING:", detail |-> Top(t).fn])
            /\ UNCHANGED syslog_lines
       ELSE /\ syslog_lines' = Append(syslog_lines,
                 [thread |-> t, text |-> "InsecureAccess: ", detail |-> Top(t).fn])
            /\ UNCHANGED stderr_lines
  /\ frames' = SetTop(t, [Top(t) EXCEPT !.pc = "clear"])
  /\ UNCHANGED <<coreVars, macroVars, sanitizing, dispatched, origs, test_env>>

\* sanitizing = false;
ClearFlag(t) ==
  /\ frames[t] # <<>>
  /\ Top(t).pc = "clear"
  /\ sanitizing' = [sanitizing EXCEPT ![t] = FALSE]
  /\ frames' = SetTop(t, [Top(t) EXCEPT !.pc = "orig"])
  /\ UNCHANGED <<coreVars, macroVars, dispatched, syslog_lines, stderr_lines, origs, test_env>>

\* return orig_...(...);  rv is what the original function returns
CallOrig(t) ==
  /\ frames[t] # <<>>
  /\ Top(t).pc = "orig"
  /\ \E rv \in {0, -1} :
       origs' = Append(origs,
         [thread |-> t, depth |-> Len(frames[t]), fn |-> Top(t).fn, args |-> Top(t).args,
          audited |-> Top(t).audited, outcome |-> Top(t).outcome,
          orig |-> OrigCall(Top(t).fn, Top(t).args), rv |-> rv, returned |-> rv])
  /\ frames' = [frames EXCEPT ![t] = SubSeq(@, 1, Len(@) - 1)]
  /\ UNCHANGED <<coreVars, macroVars, sanitizing, dispatched, syslog_lines, stderr_lines, test_env>>

InitLibc ==
  /\ fs = (RootNode :> Dir(0, 0, 493, "none", "ext", RootNode, <<>>))
  /\ cwd = RootNode
  /\ fdtab = (3 :> RootNode)
  /\ fdtab0 = fdtab
  /\ call_idx = 0
  /\ proc_info = SameProcessInformation
  /\ faults = 0
  /\ kfail = FALSE
  /\ pc = "libc"
  /\ stack = <<>>
  /\ ret = "none"
  /\ dir_fd = NoFd
  /\ elem = <<>>
  /\ file_fd = NoFd
  /\ file_is_immutable = FALSE
  /\ wpath = <<>>
  /\ at_fd = NoAtFd
  /\ max_iteration_count = DefaultMaxIterationCount
  /\ path_queue = <<>>
  /\ i = 0
  /\ sb = "none"
  /\ new_fd = NoFd
  /\ link_buf = <<>>
  /\ pops = 0
  /\ NoEvent
  /\ sanitizing = [t \in Threads |-> FALSE]
  /\ frames = [t \in Threads |-> <<>>]
  /\ dispatched = <<>>
  /\ syslog_lines = <<>>
  /\ stderr_lines = <<>>
  /\ origs = <<>>
  /\ test_env \in BOOLEAN
  /\ NoMacro
  /\ creat_ret = "none"

NextLibc ==
  \E t \in Threads :
    \/ LibcCall(t)
    \/ NestedCall(t)
    \/ Guard(t)
    \/ Dispatch(t)
    \/ LogError(t)
    \/ LogInsecureAccess(t)
    \/ ClearFlag(t)
    \/ CallOrig(t)

SpecLibc == InitLibc /\ [][NextLibc]_vars

\* ------------------------------------------------------------ status macro steps

\* PATHAUDITOR_RETURN_IF_ERROR(expr)
ReturnIfError ==
  /\ macro_ret = "running"
  /\ macro_pc <= Len(macro_steps)
  /\ macro_steps[macro_pc].macro = "RETURN_IF_ERROR"
  /\ LET status == macro_steps[macro_pc].expr
     IN IF StepReturns(status)
        THEN macro_ret' = status.status /\ UNCHANGED macro_pc
        ELSE macro_pc' = macro_pc + 1 /\ UNCHANGED macro_ret
  /\ macro_run' = Append(macro_run, macro_pc)
  /\ UNCHANGED <<coreVars, libcVars, macro_steps, macro_locals>>

\* PATHAUDITOR_ASSIGN_OR_RETURN(lhs, rexpr)
AssignOrReturn ==
  /\ macro_ret = "running"
  /\ macro_pc <= Len(macro_steps)
  /\ macro_steps[macro_pc].macro = "ASSIGN_OR_RETURN"
  /\ LET statusor == macro_steps[macro_pc].expr
     IN IF StepReturns(statusor)
        THEN /\ macro_ret' = statusor.status
             /\ UNCHANGED <<macro_pc, macro_locals>>
        ELSE /\ macro_locals' = Assign(macro_locals, macro_steps[macro_pc].target, statusor)
             /\ macro_pc' = macro_pc + 1
             /\ UNCHANGED macro_ret
  /\ macro_run' = Append(macro_run, macro_pc)
  /\ UNCHANGED <<coreVars, libcVars, macro_steps>>

\* the statement after the last macro: return Status(kUnknown, "ERROR")
FinalReturn ==
  /\ macro_ret = "running"
  /\ macro_pc = Len(macro_steps) + 1
  /\ macro_ret' = "ERROR"
  /\ macro_run' = Append(macro_run, macro_pc)
  /\ UNCHANGED <<coreVars, libcVars, macro_steps, macro_pc, macro_locals>>

\* the steps the tests write: OK and failing expressions, one or two targets
MacroSteps ==
  { [macro |-> "RETURN_IF_ERROR", target |-> 1, expr |-> x] :
      x \in {OkStatus, StatusError("EXPECTED"), StatusError("OTHER")} }
  \cup
  { [macro |-> "ASSIGN_OR_RETURN", target |-> tg, expr |-> x] :
      tg \in 1 .. NumTargets,
      x \in {StatusOrValue(1), StatusOrValue(2), StatusError("EXPECTED"), StatusError("OTHER")} }

InitMacro ==
  /\ fs = (RootNode :> Dir(0, 0, 493, "none", "ext", RootNode, <<>>))
  /\ cwd = RootNode
  /\ fdtab = (3 :> RootNode)
  /\ fdtab0 = fdtab
  /\ call_idx = 0
  /\ NoLibc
  /\ creat_ret = "none"
  /\ proc_info = SameProcessInformation
  /\ faults = 0
  /\ kfail = FALSE
  /\ pc = "macros"
  /\ stack = <<>>
  /\ ret = "none"
  /\ dir_fd = NoFd
  /\ elem = <<>>
  /\ file_fd = NoFd
  /\ file_is_immutable = FALSE
  /\ wpath = <<>>
  /\ at_fd = NoAtFd
  /\ max_iteration_count = DefaultMaxIterationCount
  /\ path_queue = <<>>
  /\ i = 0
  /\ sb = "none"
  /\ new_fd = NoFd
  /\ link_buf = <<>>
  /\ pops = 0
  /\ NoEvent
  /\ macro_steps \in UNION {[1 .. n -> MacroSteps] : n \in 0 .. MaxSteps}
  /\ macro_pc = 1
  /\ macro_locals = [tg \in 1 .. NumTargets |-> Unassigned]
  /\ macro_ret = "running"
  /\ macro_run = <<>>

NextMacro == ReturnIfError \/ AssignOrReturn \/ FinalReturn

SpecMacro == InitMacro /\ [][NextMacro]_vars

\* ------------------------------------------------------------ classifier inputs
\* A directory D (node 0, its own parent) holding "a" (node 1), which is a
\* file or a link, and "b" (node 2), a file a link may point to.

ModeGid == {<<493, 0>>, <<509, 0>>, <<509, 100>>, <<511, 0>>, <<1023, 0>>, <<1021, 100>>}

ChildKinds ==
  { Reg(0, 0, 420, "none"), Reg(1000, 0, 420, "none"), Reg(0, 0, 420, "immutable"),
    Reg(0, 0, 420, "ENOTTY"), Lnk(0, NameB), Lnk(1000, NameB), Lnk(0, NameA), Lnk(0, NameC) }

\* the directory D is node 0; its parent is D itself (D is "/") or node 3, a
\* directory of uid 1000 in which D is the entry "a"
ClassifierFs ==
  { (0 :> Dir(u, mg[2], mg[1], fl, ft, par, (NameA :> 1) @@ (NameB :> 2)))
      @@ (1 :> ch) @@ (2 :> Reg(0, 0, 420, bf))
      @@ (3 :> Dir(1000, 0, 493, "none", "ext", 3, (NameA :> 0))) :
      u \in {0, 1000}, mg \in ModeGid, fl \in {"none", "immutable", "ENOTTY"},
      ft \in {"ext", "proc", "cgroup", "cgroup2"}, ch \in ChildKinds,
      bf \in {"none", "immutable"}, par \in {0, 3} }

InitClassify ==
  /\ fs \in {f \in ClassifierFs : f[1].kind = "lnk" \/ f[2].iflags = "none"}
  /\ cwd = RootNode
  /\ fdtab = (3 :> RootNode)
  /\ fdtab0 = fdtab
  /\ call_idx = 0
  /\ NoLibc
  /\ NoMacro
  /\ creat_ret = "none"
  /\ proc_info = SameProcessInformation
  /\ faults = 0
  /\ kfail = FALSE
  /\ pc = "FIUC"
  /\ stack = <<"done">>
  /\ ret = "none"
  /\ dir_fd = 3
  /\ elem \in {NameA, NameC, NameDot, NameDotDot}
  /\ file_fd = NoFd
  /\ file_is_immutable = FALSE
  /\ wpath = <<>>
  /\ at_fd = NoAtFd
  /\ max_iteration_count = DefaultMaxIterationCount
  /\ path_queue = <<>>
  /\ i = 0
  /\ sb = "none"
  /\ new_fd = NoFd
  /\ link_buf = <<>>
  /\ pops = 0
  /\ NoEvent

NextClassify == FileIsUserControlled

SpecClassify == InitClassify /\ [][NextClassify]_vars

\* ------------------------------------------------------------ walker inputs
\* The tree  /  (node 0) with  /a (node 1, a directory),  /b (node 2, a link
\* or a file),  /a/a (node 3: a file, a directory, or absent)  and
\* /a/b (node 4, a link).  Each of the five is drawn from a few profiles;
\* a filesystem departs from the default profile in at most MaxDepart places.

MaxDepart == 2
MaxPathLen == 2

\* <<uid, gid, mode, inode flags, filesystem type>> of /a
DirProfiles ==
  << <<0, 0, 493, "none", "ext">>,         \* root-owned 0755
     <<1000, 1000, 493, "none", "ext">>,   \* user-owned
     <<1000, 1000, 493, "immutable", "ext">>,
     <<0, 0, 511, "none", "ext">>,         \* 0777
     <<0, 0, 1023, "none", "ext">>,        \* 1777
     <<0, 100, 509, "none", "ext">>,       \* 0775, group 100
     <<0, 0, 493, "ENOTTY", "proc">> >>

TopLinkKinds ==
  << Lnk(0, NameA), Reg(0, 0, 420, "none"), Lnk(0, MkPath(TRUE, <<NameA, NameA>>)),
     Lnk(0, NameB), Lnk(0, MkPath(FALSE, <<NameA, NameB>>)),
     Lnk(0, MkPath(TRUE, <<NameA, NameDot, NameDot, NameA>>)) >>   \* PATH_MAX bytes

LeafKinds ==
  << Reg(0, 0, 420, "none"), Reg(1000, 1000, 420, "none"), Reg(0, 0, 420, "immutable"),
     Dir(0, 0, 493, "none", "ext", 1, <<>>), [kind |-> "absent"] >>

SubLinkKinds ==
  << Lnk(0, NameA), Lnk(0, NameB), Lnk(1000, MkPath(TRUE, <<NameB>>)),
     Lnk(0, MkPath(FALSE, <<NameDotDot, NameB>>)) >>

RootFlags == << "none", "immutable" >>

MkWalkFs(p, bk, aa, ab, rf) ==
  LET prof == DirProfiles[p]
      leaf == LeafKinds[aa]
      ents == IF leaf.kind = "absent" THEN (NameB :> 4) ELSE (NameA :> 3) @@ (NameB :> 4)
  IN (0 :> Dir(0, 0, 493, RootFlags[rf], "ext", 0, (NameA :> 1) @@ (NameB :> 2)))
     @@ (1 :> Dir(prof[1], prof[2], prof[3], prof[4], prof[5], 0, ents))
     @@ (2 :> TopLinkKinds[bk])
     @@ (3 :> IF leaf.kind = "absent" THEN Reg(0, 0, 420, "none") ELSE leaf)
     @@ (4 :> SubLinkKinds[ab])

Departures(t) == Cardinality({k \in 1..Len(t) : t[k] # 1})

WalkFs ==
  { MkWalkFs(t[1], t[2], t[3], t[4], t[5]) :
      t \in { u \in (DOMAIN DirProfiles) \X (DOMAIN TopLinkKinds) \X (DOMAIN LeafKinds)
                      \X (DOMAIN SubLinkKinds) \X (DOMAIN RootFlags) :
                 Departures(u) <= MaxDepart } }

Names == {NameA, NameB, NameDot, NameDotDot}

CompSeqs == UNION { [1..n -> Names] : n \in 0..MaxPathLen }

\* <<path, at_fd>>
WalkInputs ==
  { <<MkPath(TRUE, cs), NoAtFd>> : cs \in CompSeqs }
  \cup { <<MkPath(FALSE, cs), f>> : cs \in CompSeqs, f \in {NoAtFd, SomeFd(3), SomeFd(5)} }

InitWalk ==
  /\ fs \in WalkFs
  /\ cwd = 1
  /\ fdtab = (3 :> RootNode)
  /\ fdtab0 = fdtab
  /\ call_idx = 0
  /\ NoLibc
  /\ NoMacro
  /\ creat_ret = "none"
  /\ proc_info = SameProcessInformation
  /\ faults = 0
  /\ kfail = FALSE
  /\ pc = "PIUC"
  /\ stack = <<"done">>
  /\ ret = "none"
  /\ dir_fd = NoFd
  /\ elem = <<>>
  /\ file_fd = NoFd
  /\ file_is_immutable = FALSE
  /\ \E inp \in WalkInputs : wpath = inp[1] /\ at_fd = inp[2]
  /\ max_iteration_count \in {MaxIter, DefaultMaxIterationCount}
  /\ path_queue = <<>>
  /\ i = 0
  /\ sb = "none"
  /\ new_fd = NoFd
  /\ link_buf = <<>>
  /\ pops = 0
  /\ NoEvent

NextWalk == PathIsUserControlled \/ FileIsUserControlled

SpecWalk == InitWalk /\ [][NextWalk]_vars

\* the same walks made for another process: its root is "/", its cwd "/a",
\* its descriptor 3 is "/a" and its descriptor 5 is "/a/a"
RemoteWalkViews ==
  { RemoteProcessInformation(TRUE, MkPath(TRUE, <<NameA>>), fb, RootNode, (3 :> 1) @@ (5 :> 3)) :
      fb \in BOOLEAN }

InitWalkRemote ==
  /\ fs \in WalkFs
  /\ cwd = 1
  /\ fdtab = (3 :> RootNode)
  /\ fdtab0 = fdtab
  /\ call_idx = 0
  /\ NoLibc
  /\ NoMacro
  /\ creat_ret = "none"
  /\ proc_info \in RemoteWalkViews
  /\ faults = 0
  /\ kfail = FALSE
  /\ pc = "PIUC"
  /\ stack = <<"done">>
  /\ ret = "none"
  /\ dir_fd = NoFd
  /\ elem = <<>>
  /\ file_fd = NoFd
  /\ file_is_immutable = FALSE
  /\ \E inp \in WalkInputs : wpath = inp[1] /\ at_fd = inp[2]
  /\ max_iteration_count = DefaultMaxIterationCount
  /\ path_queue = <<>>
  /\ i = 0
  /\ sb = "none"
  /\ new_fd = NoFd
  /\ link_buf = <<>>
  /\ pops = 0
  /\ NoEvent

SpecWalkRemote == InitWalkRemote /\ [][NextWalk]_vars

\* ------------------------------------------------------------ a racing process

\* the entries another process exchanges: /a with /b, /a/a with /a/b
ExchangeChoices == { <<RootNode, NameA, NameB>>, <<1, NameA, NameB>> }

\* the filesystems of the walker inputs that depart from the default in at
\* most one place
RaceFs ==
  { MkWalkFs(t[1], t[2], t[3], t[4], t[5]) :
      t \in { u \in (DOMAIN DirProfiles) \X (DOMAIN TopLinkKinds) \X (DOMAIN LeafKinds)
                      \X (DOMAIN SubLinkKinds) \X (DOMAIN RootFlags) :
                 Departures(u) + 1 <= MaxDepart } }

\* the other process has made its exchange
Exchanged ==
  \/ fs[RootNode].ents[NameA] # 1
  \/ fs[1].ents[NameB] # 4

\* renameat2(d, n1, d, n2, RENAME_EXCHANGE) by another process, once, at any moment
\* between two kernel calls of the walk: the two names trade their entries
ExchangeEntries ==
  /\ pc \notin {"PIUC", "done"}
  /\ ~Exchanged
  /\ \E x \in ExchangeChoices :
       LET d == x[1]
           n1 == x[2]
           n2 == x[3]
       IN /\ fs[d].kind = "dir"
          /\ {n1, n2} \subseteq DOMAIN fs[d].ents
          /\ fs' = [fs EXCEPT ![d].ents = (n1 :> fs[d].ents[n2]) @@ (n2 :> fs[d].ents[n1]) @@ @]
  /\ UNCHANGED <<cwd, fdtab0, call_idx, proc_info, creat_ret, libcVars, macroVars, dispVars, walkVars,
                 clsVars, fdtab, faults, kfail, pc, stack, ret, dir_fd, elem>>

InitWalkRace ==
  /\ fs \in RaceFs
  /\ cwd = 1
  /\ fdtab = (3 :> RootNode)
  /\ fdtab0 = fdtab
  /\ call_idx = 0
  /\ NoLibc
  /\ NoMacro
  /\ creat_ret = "none"
  /\ proc_info = SameProcessInformation
  /\ faults = 0
  /\ kfail = FALSE
  /\ pc = "PIUC"
  /\ stack = <<"done">>
  /\ ret = "none"
  /\ dir_fd = NoFd
  /\ elem = <<>>
  /\ file_fd = NoFd
  /\ file_is_immutable = FALSE
  /\ \E inp \in WalkInputs : wpath = inp[1] /\ at_fd = inp[2]
  /\ max_iteration_count = DefaultMaxIterationCount
  /\ path_queue = <<>>
  /\ i = 0
  /\ sb = "none"
  /\ new_fd = NoFd
  /\ link_buf = <<>>
  /\ pops = 0
  /\ NoEvent

NextWalkRace == NextWalk \/ ExchangeEntries

SpecWalkRace == InitWalkRace /\ [][NextWalkRace]_vars

\* ------------------------------------------------------------ dispatcher inputs

\* the filesystems of the walker inputs that depart from the default in at
\* most one place, and two with a link cycle in an immutable directory
EventFs ==
  { MkWalkFs(t[1], t[2], t[3], t[4], t[5]) :
      t \in { u \in (DOMAIN DirProfiles) \X (DOMAIN TopLinkKinds) \X (DOMAIN LeafKinds)
                      \X (DOMAIN SubLinkKinds) \X (DOMAIN RootFlags) :
                 Departures(u) + 1 <= MaxDepart } \cup {<<1, 4, 1, 1, 2>>, <<3, 1, 1, 2, 1>>} }

PathAA == MkPath(TRUE, <<NameA, NameA>>)
PathAB == MkPath(TRUE, <<NameA, NameB>>)
PathB == MkPath(TRUE, <<NameB>>)

PrimaryPaths == {PathAA, PathAB, PathB, NameA, <<>>}
PathAAC == MkPath(TRUE, <<NameA, NameA, NameC>>)
SecondPaths == {PathAAC, NameB}

FdChoices(nr) ==
  IF nr \in {"openat", "execveat"} THEN {AT_FDCWD, 3, 5}
  ELSE IF nr \in NoFollowAtSyscalls
            \cup {"fchmodat", "fchownat", "renameat", "renameat2", "linkat"}
  THEN {AT_FDCWD, 3} ELSE {0}

Fd2Choices(nr) ==
  IF nr \in {"renameat", "renameat2", "linkat", "symlinkat"} THEN {AT_FDCWD, 3} ELSE {0}

FlagChoices(nr) ==
  CASE nr \in {"open", "openat"} -> {0, O_NOFOLLOW, O_EXCL}
    [] nr \in {"fchownat", "execveat"} -> {0, AT_SYMLINK_NOFOLLOW, AT_EMPTY_PATH}
    [] nr = "umount2" -> {0, UMOUNT_NOFOLLOW}
    [] nr \in {"name_to_handle_at", "linkat"} -> {0, AT_SYMLINK_FOLLOW, AT_EMPTY_PATH}
    [] nr = "mount" -> {0, MS_BIND, MS_MOVE}
    [] OTHER -> {0}

\* the numeric arguments in the positions of the kernel ABI, path slots zero
EventArgs(nr, fd, fd2, fl) ==
  << fd,
     IF nr \in {"open", "umount2"} THEN fl ELSE IF nr = "symlinkat" THEN fd2 ELSE 0,
     IF nr = "openat" THEN fl ELSE IF nr \in {"renameat", "renameat2", "linkat"} THEN fd2 ELSE 0,
     IF nr = "mount" THEN fl ELSE 0,
     IF nr \in {"fchownat", "execveat", "name_to_handle_at", "linkat"} THEN fl ELSE 0 >>

EventsOf(nr) ==
  { [syscall_nr |-> nr, args |-> EventArgs(nr, fd, fd2, fl),
     path_args |-> IF nr \in SecondarySyscalls THEN <<p0, p1>> ELSE <<p0>>] :
      fd \in FdChoices(nr), fd2 \in Fd2Choices(nr), fl \in FlagChoices(nr),
      p0 \in PrimaryPaths,
      p1 \in IF nr \in SecondarySyscalls THEN SecondPaths ELSE {<<>>} }

FullEvents == UNION { EventsOf(nr) : nr \in SupportedSyscalls \cup {"fsync"} }

\* events that lack arguments: the numeric list cut to n entries, or the
\* last path argument dropped
ShortEvents ==
  UNION { {[e EXCEPT !.args = SubSeq(e.args, 1, n)] : n \in {0, 2, 4}}
            \cup {[e EXCEPT !.path_args = SubSeq(e.path_args, 1, Len(e.path_args) - 1)]} :
          e \in {f \in FullEvents : /\ f.path_args[1] = PathB
                                     /\ f.args[1] \in {0, 3}
                                     /\ (Len(f.path_args) = 1 \/ f.path_args[2] = PathAAC)} }

Events == FullEvents \cup ShortEvents

Init ==
  /\ fs \in EventFs
  /\ cwd = 1
  /\ fdtab = (3 :> RootNode)
  /\ fdtab0 = fdtab
  /\ call_idx = 0
  /\ NoLibc
  /\ NoMacro
  /\ creat_ret = "none"
  /\ proc_info = SameProcessInformation
  /\ faults = 0
  /\ kfail = FALSE
  /\ pc = "FEIUC"
  /\ stack = <<"done">>
  /\ ret = "none"
  /\ dir_fd = NoFd
  /\ elem = <<>>
  /\ file_fd = NoFd
  /\ file_is_immutable = FALSE
  /\ wpath = <<>>
  /\ at_fd = NoAtFd
  /\ max_iteration_count = DefaultMaxIterationCount
  /\ path_queue = <<>>
  /\ i = 0
  /\ sb = "none"
  /\ new_fd = NoFd
  /\ link_buf = <<>>
  /\ pops = 0
  /\ event \in Events
  /\ path = <<>>
  /\ fd_arg = NoAtFd
  /\ skip_last_element = FALSE
  /\ flags = 0
  /\ sec_ret = "none"
  /\ walks = <<>>

Next ==
  \/ FileEventIsUserControlled
  \/ PathIsUserControlled
  \/ FileIsUserControlled
  \/ FileIsUserWritable

Spec == Init /\ [][Next]_vars

\* ------------------------------------------------------------ creat audited twice

\* path_auditor_libc.cc line 194
CreatFlags == O_CREAT + O_WRONLY + O_TRUNC

\* the path of a creat event is audited with every kernel call answering from
\* the filesystem, and then once more, from the same starting state, as the
\* event the creat wrapper builds
InitCreat ==
  /\ fs \in WalkFs
  /\ cwd = 1
  /\ fdtab = (3 :> RootNode)
  /\ fdtab0 = fdtab
  /\ call_idx = 0
  /\ NoLibc
  /\ NoMacro
  /\ creat_ret = "none"
  /\ proc_info = SameProcessInformation
  /\ faults = MaxFaults
  /\ kfail = FALSE
  /\ pc = "FEIUC"
  /\ stack = <<"creat_done", "done">>
  /\ ret = "none"
  /\ dir_fd = NoFd
  /\ elem = <<>>
  /\ file_fd = NoFd
  /\ file_is_immutable = FALSE
  /\ wpath = <<>>
  /\ at_fd = NoAtFd
  /\ max_iteration_count = DefaultMaxIterationCount
  /\ path_queue = <<>>
  /\ i = 0
  /\ sb = "none"
  /\ new_fd = NoFd
  /\ link_buf = <<>>
  /\ pops = 0
  /\ event \in EventsOf("creat")
  /\ path = <<>>
  /\ fd_arg = NoAtFd
  /\ skip_last_element = FALSE
  /\ flags = 0
  /\ sec_ret = "none"
  /\ walks = <<>>

\* path_auditor_libc.cc lines 192-197: the event of creat(file, mode) is
\* FileEvent(SYS_open, {0, O_CREAT | O_WRONLY | O_TRUNC, mode}, {file}); it
\* is audited from the state the first audit started in
CreatAsOpen ==
  /\ pc = "creat_done"
  /\ creat_ret' = ret
  /\ event' = [syscall_nr |-> "open", args |-> <<0, CreatFlags, event.args[2]>>,
               path_args |-> <<PathArg(event, 0)>>]
  /\ pc' = "FEIUC"
  /\ ret' = "none"
  /\ fdtab' = fdtab0
  /\ kfail' = FALSE
  /\ dir_fd' = NoFd
  /\ elem' = <<>>
  /\ file_fd' = NoFd
  /\ file_is_immutable' = FALSE
  /\ wpath' = <<>>
  /\ at_fd' = NoAtFd
  /\ max_iteration_count' = DefaultMaxIterationCount
  /\ path_queue' = <<>>
  /\ i' = 0
  /\ sb' = "none"
  /\ new_fd' = NoFd
  /\ link_buf' = <<>>
  /\ pops' = 0
  /\ path' = <<>>
  /\ fd_arg' = NoAtFd
  /\ skip_last_element' = FALSE
  /\ flags' = 0
  /\ sec_ret' = "none"
  /\ walks' = <<>>
  /\ UNCHANGED <<fs, cwd, fdtab0, call_idx, proc_info, libcVars, macroVars, faults, stack>>

\* neither event has a secondary walk or a direct check to return from
NextCreat ==
  \/ FEIUC_Entry
  \/ PathIsUserControlled
  \/ FileIsUserControlled
  \/ CreatAsOpen

SpecCreat == InitCreat /\ [][NextCreat]_vars

\* ------------------------------------------------------------ process view inputs

\* "/" and "/a" directories, "/b" a link to "a" or a regular file, "/a/a" a
\* regular file, a directory or absent
ProcFs == { MkWalkFs(1, bk, aa, 1, 1) : bk \in {1, 2}, aa \in {1, 4, 5} }

PathA == MkPath(TRUE, <<NameA>>)

\* the auditee: gone or not, cwd "/a", "/a/a" or "/b", with or without
\* fallback, its root "/" or (chrooted) "/a", its fd 3 "/a" and its fd 4 "/a/a"
ProcessViews ==
  {SameProcessInformation}
  \cup { RemoteProcessInformation(al, c, fb, r, (3 :> 1) @@ (4 :> 3)) :
           al \in BOOLEAN, c \in {PathA, MkPath(TRUE, <<NameA, NameA>>), MkPath(TRUE, <<NameB>>)},
           fb \in BOOLEAN, r \in {0, 1} }

InitProc ==
  /\ fs \in ProcFs
  /\ cwd = 1
  /\ fdtab = (3 :> 1) @@ (4 :> 3)
  /\ fdtab0 = fdtab
  /\ call_idx = 0
  /\ NoLibc
  /\ NoMacro
  /\ creat_ret = "none"
  /\ proc_info \in ProcessViews
  /\ faults = 0
  /\ kfail = FALSE
  /\ \/ pc \in {"RootFileDescriptor", "CwdFileDescriptor"} /\ at_fd = NoAtFd
     \/ pc = "DupDirFileDescriptor" /\ at_fd \in {SomeFd(3), SomeFd(4), SomeFd(5)}
  /\ stack = <<>>
  /\ ret = FailedPreconditionError
  /\ dir_fd = NoFd
  /\ elem = <<>>
  /\ file_fd = NoFd
  /\ file_is_immutable = FALSE
  /\ wpath = <<>>
  /\ max_iteration_count = DefaultMaxIterationCount
  /\ path_queue = <<>>
  /\ i = 0
  /\ sb = "none"
  /\ new_fd = NoFd
  /\ link_buf = <<>>
  /\ pops = 0
  /\ NoEvent

NextProc ==
  \/ Remote_DupDirFileDescriptor
  \/ Remote_CwdFileDescriptor
  \/ Remote_CwdFallback
  \/ Remote_RootFileDescriptor
  \/ Remote_RootFallback
  \/ Same_DupDirFileDescriptor
  \/ Same_CwdFileDescriptor
  \/ Same_RootFileDescriptor

SpecProc == InitProc /\ [][NextProc]_vars

\* ------------------------------------------------------------ direct check inputs

\* the file "/a/a": regular files 0644 of root and of uid 1000, 0664 of group
\* 100 and of group 0, 0666, a directory 0777, and a link to the looping "/a/b"
WritableLeafs ==
  { Reg(0, 0, 420, "none"), Reg(1000, 0, 420, "none"), Reg(0, 100, 436, "none"),
    Reg(0, 0, 436, "none"), Reg(0, 0, 438, "none"),
    Dir(0, 0, 511, "none", "ext", 1, <<>>), Lnk(0, NameB) }

\* "/" and "/a" directories, "/b" a link to "a/a", "/a/b" a link to itself
WritableFs ==
  { (0 :> Dir(0, 0, 493, "none", "ext", 0, (NameA :> 1) @@ (NameB :> 2)))
      @@ (1 :> Dir(0, 0, 493, "none", "ext", 0, (NameA :> 3) @@ (NameB :> 4)))
      @@ (2 :> Lnk(0, MkPath(FALSE, <<NameA, NameA>>)))
      @@ (3 :> leaf)
      @@ (4 :> Lnk(0, NameB)) : leaf \in WritableLeafs }

WritablePaths ==
  { PathAA, PathB, PathAB, MkPath(TRUE, <<NameA, NameA, NameA>>), MkPath(TRUE, <<NameC>>),
    NameA, <<>> }

InitWritable ==
  /\ fs \in WritableFs
  /\ cwd = 1
  /\ fdtab = (3 :> RootNode)
  /\ fdtab0 = fdtab
  /\ call_idx = 0
  /\ NoLibc
  /\ NoMacro
  /\ creat_ret = "none"
  /\ proc_info = SameProcessInformation
  /\ faults = 0
  /\ kfail = FALSE
  /\ pc = "FIUW"
  /\ stack = <<"done">>
  /\ ret = "none"
  /\ dir_fd = NoFd
  /\ elem = <<>>
  /\ file_fd = NoFd
  /\ file_is_immutable = FALSE
  /\ wpath \in WritablePaths
  /\ at_fd \in {NoAtFd, SomeFd(AT_FDCWD), SomeFd(3), SomeFd(5)}
  /\ max_iteration_count = DefaultMaxIterationCount
  /\ path_queue = <<>>
  /\ i = 0
  /\ sb = "none"
  /\ new_fd = NoFd
  /\ link_buf = <<>>
  /\ pops = 0
  /\ NoEvent

NextWritable == FileIsUserWritable

SpecWritable == InitWritable /\ [][NextWritable]_vars

\* ------------------------------------------------------------ accessor inputs

MaxArgs == 2

RECURSIVE SeqsUpTo(_, _)
SeqsUpTo(S, n) ==
  IF n = 0 THEN {<<>>}
  ELSE SeqsUpTo(S, n - 1) \cup {Append(q, x) : q \in {r \in SeqsUpTo(S, n - 1) : Len(r) = n - 1}, x \in S}

\* events as the tests build them: FileEvent(SYS_open, {10, 20}, {"/foo", "/bar"})
\* and its shorter and emptier relatives
AccessEvents ==
  { [syscall_nr |-> "open", args |-> a, path_args |-> p] :
      a \in SeqsUpTo({10, 20}, MaxArgs), p \in SeqsUpTo({PathAA, PathB}, MaxArgs) }

\* the indexes a caller writes: -1, those in range, the first ones out of range
AccessIndexes == -1 .. (MaxArgs + 1)

InitAccess ==
  /\ fs = (RootNode :> Dir(0, 0, 493, "none", "ext", RootNode, <<>>))
  /\ cwd = RootNode
  /\ fdtab = (3 :> RootNode)
  /\ fdtab0 = fdtab
  /\ call_idx \in AccessIndexes
  /\ NoLibc
  /\ NoMacro
  /\ creat_ret = "none"
  /\ proc_info = SameProcessInformation
  /\ faults = 0
  /\ kfail = FALSE
  /\ pc = "access"
  /\ stack = <<>>
  /\ ret = "none"
  /\ dir_fd = NoFd
  /\ elem = <<>>
  /\ file_fd = NoFd
  /\ file_is_immutable = FALSE
  /\ wpath = <<>>
  /\ at_fd = NoAtFd
  /\ max_iteration_count = DefaultMaxIterationCount
  /\ path_queue = <<>>
  /\ i = 0
  /\ sb = "none"
  /\ new_fd = NoFd
  /\ link_buf = <<>>
  /\ pops = 0
  /\ event \in AccessEvents
  /\ path = <<>>
  /\ fd_arg = NoAtFd
  /\ skip_last_element = FALSE
  /\ flags = 0
  /\ sec_ret = "none"
  /\ walks = <<>>

NextAccess == CallArg \/ CallPathArg

SpecAccess == InitAccess /\ [][NextAccess]_vars

\* ------------------------------------------------------------ properties

Done == pc = "done"
IsBool(r) == r \in {"true", "false"}

\* the directory a walk of wpath with at_fd starts in
StartNode ==
  IF IsAbsolutePath(wpath) THEN RootNode
  ELSE IF ~at_fd.has_value \/ at_fd.value = AT_FDCWD THEN cwd
  ELSE IF at_fd.value \in DOMAIN fdtab0 THEN fdtab0[at_fd.value]
  ELSE NoNode

\* what a resolution finds for the head of comps in directory cur: nothing
\* to look up ("stop"), a missing name or a dangling procfs link ("last"),
\* a link to expand, a procfs link or a plain entry
LCase(cur, comps, fuel) ==
  IF comps = <<>> \/ fuel = 0 \/ cur = NoNode THEN "stop"
  ELSE IF fs[cur].kind # "dir" THEN "stop"
  ELSE LET nxt == KLookup(cur, Head(comps))
       IN IF nxt = NoNode THEN "last"
          ELSE IF fs[nxt].kind # "lnk" THEN "step"
          ELSE IF fs[cur].fstype # "proc" THEN "link"
          ELSE IF KWalk(cur, <<Head(comps)>>, MAXSYMLINKS, TRUE).err = "OK" THEN "proclink"
          ELSE "last"

\* The lookups <<directory, name>> that resolving the components comps0 from
\* directory cur0 makes, in order, read off the filesystem: a link's text is
\* split and put in front of the remaining components (resolution restarts
\* at the root for an absolute link); a link in a procfs directory is
\* dereferenced by the kernel; resolution stops at a missing name and at a
\* non-directory.  At most fuel0 lookups are listed.
RECURSIVE LookupSeq(_, _, _)
LookupSeq(cur0, comps0, fuel0) ==
  [cur \in {cur0}, comps \in {comps0}, fuel \in {fuel0} |->
     CASE LCase(cur, comps, fuel) = "stop" -> <<>>
       [] LCase(cur, comps, fuel) = "last" -> <<<<cur, Head(comps)>>>>
       [] LCase(cur, comps, fuel) = "step" ->
            <<<<cur, Head(comps)>>>>
              \o LookupSeq(KLookup(cur, Head(comps)), Tail(comps), fuel - 1)
       [] LCase(cur, comps, fuel) = "link" ->
            <<<<cur, Head(comps)>>>>
              \o LookupSeq(KLinkDir(cur, comps), KLinkComps(cur, comps), fuel - 1)
       [] LCase(cur, comps, fuel) = "proclink" ->
            <<<<cur, Head(comps)>>>>
              \o LookupSeq(KWalk(cur, <<Head(comps)>>, MAXSYMLINKS, TRUE).node,
                           Tail(comps), fuel - 1)][cur0, comps0, fuel0]

PathLookups == LookupSeq(StartNode, StrSplit(wpath), DefaultMaxIterationCount + 1)

\* the walk started in an open directory and no kernel call was made to fail
CleanWalk == StartNode # NoNode /\ faults = 0

\* C1: every descriptor opened during a call of FileEventIsUserControlled is
\* closed when the call returns, whatever its outcome: the open descriptors
\* are those of before the call.
C1_NoDescriptorLeak == Done => fdtab = fdtab0

\* C2: if a kernel call made on behalf of a dispatcher call fails with an
\* error other than ENOENT (ENOTTY of the flags ioctl aside), in the primary
\* walk, a secondary walk or the direct check, or a walk exhausts its budget,
\* FileEventIsUserControlled returns an error and never a boolean.
C2_FailureGivesError ==
  Done /\ (kfail \/ sec_ret = "RESOURCE_EXHAUSTED") => ~IsBool(ret)

\* C3: PathIsUserControlled returns resource-exhausted only when components
\* remain in the queue; a fully consumed queue gives false, also when it
\* empties on the last iteration the budget allows.
C3_ExhaustedOnlyWithQueue ==
  Done /\ ret = "RESOURCE_EXHAUSTED" => path_queue # <<>>

\* the kernel cannot resolve the path for a link cycle
LinkCycle ==
  /\ StartNode # NoNode
  /\ wpath # <<>>
  /\ KWalk(StartNode, StrSplit(wpath), MAXSYMLINKS, TRUE).err = "ELOOP"

\* C4: a path that resolves through a symlink cycle (or a chain longer than
\* the budget), no component of which is classified user-controlled, makes
\* PathIsUserControlled return the resource-exhausted error.
C4_CycleExhausts ==
  Done /\ CleanWalk /\ LinkCycle /\ max_iteration_count = DefaultMaxIterationCount /\ ret # "true"
    => ret = "RESOURCE_EXHAUSTED"

\* positions of the loop body after the pop
BodyPcs ==
  {"FIUC", "FIUC_open", "FIUC_file_ioctl", "FIUC_close", "FIUC_statfs", "FIUC_fstat",
   "FIUC_fstatat", "PIUC_classified", "PIUC_statfs", "PIUC_restat", "PIUC_switch",
   "PIUC_chdir", "PIUC_root", "PIUC_root_close"}

IterationBound ==
  /\ i <= max_iteration_count
  /\ pops \in {i, i + 1}
  /\ pc = "PIUC_loop" => pops = i
  /\ pc \in BodyPcs => pops = i + 1

\* position of a statement within one iteration, counted from its end
PcRank ==
  [p \in BodyPcs \cup {"PIUC_loop"} |->
     CASE p = "PIUC_loop" -> 16 [] p = "FIUC" -> 15 [] p = "FIUC_open" -> 14
       [] p = "FIUC_file_ioctl" -> 13 [] p = "FIUC_close" -> 12 [] p = "FIUC_statfs" -> 11
       [] p = "FIUC_fstat" -> 10 [] p = "FIUC_fstatat" -> 9 [] p = "PIUC_classified" -> 8
       [] p = "PIUC_statfs" -> 7 [] p = "PIUC_restat" -> 6 [] p = "PIUC_switch" -> 5
       [] p = "PIUC_root" -> 4 [] p = "PIUC_chdir" -> 3 [] p = "PIUC_root_close" -> 2]

\* steps the walk can still take: iterations left, then statements left
StepsLeft ==
  IF pc = "done" THEN 0
  ELSE IF pc = "PIUC" THEN (max_iteration_count + 1) * 17 + 1
  ELSE (max_iteration_count - i) * 17 + PcRank[pc] + 1

NoPrimaryWalk == \A k \in DOMAIN walks : walks[k][1] # "primary"

\* C6: when the secondary walk or the exec direct check returns true,
\* FileEventIsUserControlled returns true and performs no primary walk.
C6_ShortCircuit ==
  Done /\ sec_ret = "true" => ret = "true" /\ NoPrimaryWalk

\* C6 witness: a rename whose destination directory is user-controlled
C6_Witness ==
  /\ Done
  /\ sec_ret = "true"
  /\ event.syscall_nr = "rename"
  /\ Len(walks) = 1

\* some component is looked up in a directory owned by a non-root user
UserOwnedAncestor ==
  LET L == PathLookups
  IN \E k \in DOMAIN L : fs[L[k][1]].uid # 0

\* C7 (as claimed): a path that contains a user-owned ancestor directory
\* makes PathIsUserControlled return true.
C7_UserOwnedAncestorTrue ==
  Done /\ CleanWalk /\ ~kfail /\ ret # "RESOURCE_EXHAUSTED" /\ UserOwnedAncestor
    => ret = "true"

\* a name other than "." and ".." is looked up in a directory owned by a
\* non-root user, the directory neither immutable nor on proc/cgroup, the
\* name not opening to an immutable file
UserOwnedStep ==
  LET L == PathLookups
  IN \E k \in DOMAIN L :
    LET D == L[k][1]
        n == L[k][2]
        opened == KWalk(D, <<n>>, MAXSYMLINKS, TRUE)
    IN /\ fs[D].uid # 0
       /\ n \notin {NameDot, NameDotDot}
       /\ fs[D].iflags # "immutable"
       /\ fs[D].fstype \notin {"proc", "cgroup", "cgroup2"}
       /\ ~(opened.err = "OK" /\ fs[opened.node].iflags = "immutable")

\* C7 (amended): if the walk looks up a name other than "." and ".." in a
\* directory owned by a non-root user, neither immutable nor on
\* proc/cgroup, the name not opening to an immutable file, then
\* PathIsUserControlled does not return false; it returns true unless a
\* kernel call fails or the budget runs out first.
C7_UserOwnedStepTrue ==
  Done /\ StartNode # NoNode /\ UserOwnedStep
    => /\ ret # "false"
       /\ ret = "true" \/ kfail \/ ret = "RESOURCE_EXHAUSTED"

\* C7 witness: such a path, answered true
C7_Witness == Done /\ CleanWalk /\ UserOwnedStep /\ ret = "true"

\* a root-owned directory of mode at most 0755 without the sticky bit
SafeDir(d) ==
  /\ fs[d].kind = "dir"
  /\ fs[d].uid = 0
  /\ ~HasBit(fs[d].mode, S_IWGRP)
  /\ ~HasBit(fs[d].mode, S_IWOTH)
  /\ ~HasBit(fs[d].mode, S_ISVTX)

\* the directory the kernel reaches after the first k components of the path
DirAfter(k) == KWalk(StartNode, SubSeq(StrSplit(wpath), 1, k), MAXSYMLINKS, TRUE)

\* every intermediate directory of the path is safe and its final component
\* is absent or owned by root
SafeLexicalPath ==
  LET comps == StrSplit(wpath)
      n == Len(comps)
  IN /\ n > 0
     /\ \A k \in 0..(n - 1) : DirAfter(k).err = "OK" /\ SafeDir(DirAfter(k).node)
     /\ LET last == KWalk(DirAfter(n - 1).node, <<comps[n]>>, MAXSYMLINKS, FALSE)
        IN last.err = "ENOENT" \/ (last.err = "OK" /\ fs[last.node].uid = 0)

\* C8 (as claimed): a path whose intermediate directories are all root-owned
\* with mode at most 0755 and no sticky bit, and whose final component is
\* absent or root-owned, makes PathIsUserControlled return false (stated
\* for the default budget, which no path of the inputs exceeds).
C8_SafePathFalse ==
  Done /\ CleanWalk /\ ~kfail /\ max_iteration_count = DefaultMaxIterationCount /\ SafeLexicalPath
    => ret = "false"

\* every directory in which the walk looks a component up, those reached by
\* expanding links included, is safe
AllLookupsSafe ==
  LET L == PathLookups
  IN \A k \in DOMAIN L : SafeDir(L[k][1])

\* the walk met a file that is neither directory nor link with components
\* still queued
NonDirInMiddle == sb = "reg" /\ path_queue # <<>>

\* C8 (amended): if every directory in which the walk looks a component up,
\* those reached by expanding symlinks included, is root-owned with mode at
\* most 0755 and no sticky bit, PathIsUserControlled never returns true; it
\* returns false when the walk needs fewer than max_iteration_count lookups,
\* no kernel call fails and no non-directory stands in the middle of the path,
\* and it returns resource-exhausted only with max_iteration_count or more.
C8_SafeLookupsFalse ==
  Done /\ StartNode # NoNode /\ AllLookupsSafe
    => /\ ret # "true"
       /\ Len(PathLookups) < max_iteration_count /\ ~kfail /\ ~NonDirInMiddle => ret = "false"
       /\ ret = "RESOURCE_EXHAUSTED" => Len(PathLookups) >= max_iteration_count

\* C8 witness: a safe path through a link, answered false
C8_Witness ==
  /\ Done
  /\ CleanWalk
  /\ AllLookupsSafe
  /\ ret = "false"
  /\ Len(PathLookups) > Len(StrSplit(wpath))
  /\ Len(StrSplit(wpath)) >= 2

\* the path ends in a symlink whose parent directory is writable by a user
\* (owned by one, or group/world-writable), not sticky, not immutable and
\* not on proc/cgroup
FinalSymlinkInWritableParent ==
  LET comps == StrSplit(wpath)
      n == Len(comps)
  IN /\ n > 0
     /\ DirAfter(n - 1).err = "OK"
     /\ LET d == DirAfter(n - 1).node
            l == KLookup(d, comps[n])
        IN /\ fs[d].kind = "dir"
           /\ l # NoNode
           /\ comps[n] \notin {NameDot, NameDotDot}
           /\ fs[l].kind = "lnk"
           /\ \/ fs[d].uid # 0
              \/ fs[d].gid # 0 /\ HasBit(fs[d].mode, S_IWGRP)
              \/ HasBit(fs[d].mode, S_IWOTH)
           /\ ~HasBit(fs[d].mode, S_ISVTX)
           /\ fs[d].iflags # "immutable"
           /\ fs[d].fstype = "ext"

\* C9: a path ending in a symlink whose parent directory is user-writable
\* and not sticky makes PathIsUserControlled answer true whatever the link
\* points to.
C9_FinalSymlinkTrue ==
  Done /\ CleanWalk /\ IsBool(ret) /\ FinalSymlinkInWritableParent => ret = "true"

\* The ordered rules of the classifier for name n in directory node D, read
\* off the filesystem: "n opens" is the kernel's open of n, links followed;
\* the sticky rule looks n up without following a link.
RuleVerdict(D, n) ==
  LET d == fs[D]
      opened == KWalk(D, <<n>>, MAXSYMLINKS, TRUE)
      looked == KWalk(D, <<n>>, MAXSYMLINKS, FALSE)
      writable == (d.gid # 0 /\ d.mode \in {509, 511, 1021, 1023}) \/ d.mode \in {511, 1023}
      sticky == d.mode \in {1021, 1023}
  IN IF n = NameDot \/ n = NameDotDot THEN "false"
     ELSE IF d.iflags = "immutable" THEN "false"
     ELSE IF opened.err = "OK" /\ fs[opened.node].iflags = "immutable" THEN "false"
     ELSE IF d.fstype \in {"proc", "cgroup", "cgroup2"} THEN "false"
     ELSE IF d.uid # 0 THEN "true"
     ELSE IF writable
          THEN IF ~sticky THEN "true"
               ELSE IF looked.err = "ENOENT" THEN "true"
               ELSE IF looked.err = "OK" /\ fs[looked.node].uid # 0 THEN "true"
               ELSE "false"
     ELSE "false"

\* C10: FileIsUserControlled(D, n) returns exactly what the ordered rules
\* (1)-(7) give, the first firing rule winning: whenever it returns a boolean
\* that boolean is the rules' verdict, and it returns a boolean whenever no
\* kernel call failed.
C10_OrderedRules ==
  Done => /\ IsBool(ret) => ret = RuleVerdict(fdtab0[3], elem)
          /\ ~kfail => IsBool(ret)

\* C10 witness: a directory owned by a non-root user, on a cgroup2 filesystem,
\* classified false for a name that exists
C10_Witness ==
  /\ Done
  /\ ret = "false"
  /\ elem = NameA
  /\ fs[0].uid # 0
  /\ fs[0].fstype = "cgroup2"
  /\ fs[0].iflags # "immutable"

\* the sticky rule of lines 184-204 read on its own: the name is absent from D,
\* or present (last component not followed) with an owner other than root
StickyVerdict(D, n) ==
  LET looked == KWalk(D, <<n>>, MAXSYMLINKS, FALSE)
  IN IF looked.err = "ENOENT" \/ (looked.err = "OK" /\ fs[looked.node].uid # 0)
     THEN "true" ELSE "false"

\* D is owned by root, writable by a user, sticky, not immutable and not on
\* procfs or cgroup; the name does not open to an immutable file
StickyCase(D, n) ==
  LET d == fs[D]
      opened == KWalk(D, <<n>>, MAXSYMLINKS, TRUE)
  IN /\ d.uid = 0
     /\ UserWritableMode(d)
     /\ HasBit(d.mode, S_ISVTX)
     /\ d.iflags # "immutable"
     /\ ~IsProcOrCgroup(d.fstype)
     /\ ~(opened.err = "OK" /\ fs[opened.node].iflags = "immutable")

\* C11 as stated: in a root-owned, user-writable, sticky directory that is
\* neither immutable nor on procfs/cgroup, every non-immutable name n, ".."
\* included, is classified true exactly when n is absent or is owned by a
\* non-root user, looked up without following symlinks.
C11_StickyAnyName ==
  Done /\ IsBool(ret) /\ StickyCase(fdtab0[3], elem)
    => ret = StickyVerdict(fdtab0[3], elem)

\* C11 amended: the same for every name n other than "." and "..": whenever
\* the classifier returns a verdict it is true exactly when n is absent or
\* owned by a non-root user (last component not followed), and it returns a
\* verdict whenever no kernel call failed.
C11_StickyRule ==
  Done /\ StickyCase(fdtab0[3], elem) /\ elem \notin {NameDot, NameDotDot}
    => /\ IsBool(ret) => ret = StickyVerdict(fdtab0[3], elem)
       /\ ~kfail => IsBool(ret)

\* C11 witness: in a sticky world-writable root-owned directory an absent
\* name was classified true by the lookup of lines 191-200
C11_Witness ==
  /\ Done
  /\ StickyCase(fdtab0[3], elem)
  /\ elem = NameC
  /\ ret = "true"
  /\ fs[0].mode = 1023

\* the name is a symbolic link in the directory held by descriptor fd
IsSymlinkIn(fd, name) ==
  LET r == KStatNoFollow(fd, name)
  IN r.err = "OK" /\ fs[r.node].kind = "lnk"

SlashFree(name) == \A k \in 1..Len(name) : name[k] # Slash

\* C12: during a dispatcher call every kernel lookup that follows links names
\* a single slash-free component of the held directory descriptor which is
\* not a symbolic link: neither the probe open of a component (line 142) nor
\* the fstatat of the exec-family direct check (line 104) hands the kernel a
\* symlink or a multi-component path to resolve.
C12_OnlyValidatedLookups ==
  /\ pc = "FIUC_open" => SlashFree(elem) /\ ~IsSymlinkIn(dir_fd, elem)
  /\ pc = "FIUW_stat" => SlashFree(wpath) /\ ~IsSymlinkIn(dir_fd, wpath)

\* C13: every event whose syscall number is not a supported one, whatever its
\* argument lists hold (an empty path-argument list included), makes the
\* dispatcher return the unimplemented error, and no walk or direct check is
\* started for it.
C13_UnknownUnimplemented ==
  Done /\ event.syscall_nr \notin SupportedSyscalls
    => ret = "UNIMPLEMENTED" /\ walks = <<>>

\* C14: Arg(i) and PathArg(i) return the i-th element of the numeric / path
\* argument sequence when i is below the sequence's size and the out-of-range
\* error otherwise, for empty sequences and for the index -1 as well; the
\* call leaves the event as it was.
C14_Accessors ==
  /\ [](pc = "Arg_done" =>
          /\ (0 <= call_idx /\ call_idx < Len(event.args)) => ret = Holds(event.args[call_idx + 1])
          /\ ~(0 <= call_idx /\ call_idx < Len(event.args)) => ret = OutOfRangeError)
  /\ [](pc = "PathArg_done" =>
          /\ (0 <= call_idx /\ call_idx < Len(event.path_args)) => ret = Holds(event.path_args[call_idx + 1])
          /\ ~(0 <= call_idx /\ call_idx < Len(event.path_args)) => ret = OutOfRangeError)
  /\ [][event' = event]_vars

\* C14 witness: Arg(-1) on an event with two numeric arguments was out of range
C14_Witness ==
  /\ pc = "Arg_done"
  /\ call_idx = -1
  /\ Len(event.args) = 2
  /\ ret = OutOfRangeError

\* the directory the claim names for the call's path and at_fd, NoNode when
\* at_fd is to be duplicated and is not an open descriptor
InitialDir ==
  IF IsAbsolutePath(wpath) THEN RootNode
  ELSE IF ~at_fd.has_value \/ at_fd.value = AT_FDCWD THEN cwd
  ELSE IF at_fd.value \in DOMAIN fdtab THEN fdtab[at_fd.value]
  ELSE NoNode

InitialDirOpens ==
  /\ InitialDir # NoNode
  /\ fs[InitialDir].kind = "dir"
  /\ FreeFds # {}

\* the step taken from the entry of a walk or of the direct check
ResolveStepAsClaimed ==
  pc \in {"PIUC", "FIUW"} =>
    \/ /\ InitialDirOpens
       /\ pc' \in {"PIUC_loop", "FIUW_stat"}
       /\ dir_fd' \notin DOMAIN fdtab
       /\ fdtab' = fdtab @@ (dir_fd' :> InitialDir)
    \/ /\ ~InitialDirOpens \/ faults' > faults
       /\ pc' = Head(stack)
       /\ ~IsBool(ret') /\ ret' # "none"
       /\ fdtab' = fdtab

\* C15: the first step of a walk and of the exec direct check opens a new
\* descriptor on the process root when the path is absolute (whatever at_fd
\* is), else on the working directory when at_fd is absent or AT_FDCWD, else
\* on the directory at_fd refers to; it fails only when that open fails, and
\* then the call returns an error with the descriptor table as it was.
C15_InitialDescriptor == [][ResolveStepAsClaimed]_vars

\* C15 witness: a walk of an absolute path called with an at_fd that is not
\* an open descriptor started at the root
C15_Witness ==
  /\ pc = "PIUC_loop" /\ i = 0 /\ pops = 0
  /\ IsAbsolutePath(wpath)
  /\ at_fd.has_value /\ at_fd.value = 5 /\ 5 \notin DOMAIN fdtab
  /\ fdtab[dir_fd] = RootNode

\* C16: every ProcessView operation, of the same-process and of the remote
\* realization, ends either with a descriptor that refers to a directory or
\* with the failed-precondition error; it never hands out a descriptor of a
\* non-directory.
C16_DirectoryOrError ==
  Done => IF ret.ok THEN fs[fdtab[ret.value]].kind = "dir"
                    ELSE ret = FailedPreconditionError

\* what the lookup below /proc/<pid> finds for the operation at pc
ProcLookup ==
  IF ~proc_info.alive THEN Err("ENOENT")
  ELSE CASE pc = "RootFileDescriptor" -> Ok(proc_info.root)
         [] pc = "CwdFileDescriptor" -> KWalk(proc_info.root, StrSplit(proc_info.cwd_), MAXSYMLINKS, TRUE)
         [] OTHER -> IF at_fd.value \in DOMAIN proc_info.fds
                     THEN Ok(proc_info.fds[at_fd.value]) ELSE Err("ENOENT")

\* the step of a remote operation: the /proc lookup, then the fallback open
RemoteStepAsClaimed ==
  /\ proc_info.kind = "remote"
       /\ pc \in {"RootFileDescriptor", "CwdFileDescriptor", "DupDirFileDescriptor"}
     => \/ /\ ret'.ok
           /\ ProcLookup.err = "OK"
           /\ fdtab' = fdtab @@ (ret'.value :> ProcLookup.node)
           /\ pc' = "done"
        \/ /\ ~ret'.ok
           /\ ProcLookup.err # "OK" \/ faults' > faults
           /\ fdtab' = fdtab
           /\ IF proc_info.fallback_ /\ pc = "RootFileDescriptor" THEN pc' = "Root_fallback"
              ELSE IF proc_info.fallback_ /\ pc = "CwdFileDescriptor" THEN pc' = "Cwd_fallback"
              ELSE pc' = "done" /\ ret' = FailedPreconditionError
  /\ pc = "Root_fallback"
     => /\ pc' = "done"
        /\ ret'.ok => fdtab' = fdtab @@ (ret'.value :> RootNode)
        /\ ~ret'.ok => faults' > faults
  /\ pc = "Cwd_fallback"
     => /\ pc' = "done"
        /\ ret'.ok => fdtab' = fdtab @@ (ret'.value :> KOpenPath(proc_info.cwd_).node)
        /\ ~ret'.ok => KOpenPath(proc_info.cwd_).err # "OK" \/ faults' > faults

\* C17: a remote lookup that succeeds below /proc/<pid> is the result; when
\* it fails, without fallback (and for fd lookups always) that failure is
\* returned and nothing else is opened; with fallback the root lookup then
\* opens "/" and the cwd lookup then opens the raw cwd string, and such a
\* retry is only ever made after a failed /proc lookup with fallback enabled.
C17_RemoteFallback ==
  /\ [][RemoteStepAsClaimed]_vars
  /\ [](pc \in {"Root_fallback", "Cwd_fallback"} =>
          proc_info.fallback_ /\ kfail /\ ~ret.ok /\ fdtab = fdtab0)

\* C17 witness: with fallback enabled and the pid gone, the cwd lookup ended
\* with a descriptor opened from the raw cwd string
C17_Witness ==
  /\ Done
  /\ proc_info.kind = "remote" /\ proc_info.fallback_ /\ ~proc_info.alive
  /\ at_fd = NoAtFd
  /\ ret.ok
  /\ fdtab[ret.value] # RootNode

\* the event carries arguments 0-4 with AT_EMPTY_PATH in argument 4, and an
\* empty primary path
EmptyPathEvent ==
  /\ Len(event.args) >= 5
  /\ HasBit(event.args[5], AT_EMPTY_PATH)
  /\ Len(event.path_args) >= 1
  /\ event.path_args[1] = <<>>

\* C18 as stated: for fchownat, execveat, linkat and name_to_handle_at with
\* AT_EMPTY_PATH in argument 4 and an empty primary path the dispatcher
\* returns false without any walk, primary or secondary, or direct check.
C18_EmptyPathNoWalk ==
  Done /\ EmptyPathEvent
       /\ event.syscall_nr \in {"fchownat", "execveat", "linkat", "name_to_handle_at"}
    => ret = "false" /\ walks = <<>>

\* C18 amended: for fchownat, execveat and name_to_handle_at that is so; for
\* linkat with both path arguments present the secondary walk of
\* dirname(path argument 1) from descriptor argument 2 is made first and
\* nothing else, and the result is true when that walk returned true and
\* false otherwise.
C18_EmptyPathFalse ==
  Done /\ EmptyPathEvent
    => /\ event.syscall_nr \in {"fchownat", "execveat", "name_to_handle_at"}
            => ret = "false" /\ walks = <<>>
       /\ event.syscall_nr = "linkat" /\ Len(event.path_args) >= 2
            => /\ walks = << <<"secondary", Dirname(event.path_args[2]), SomeFd(event.args[3])>> >>
               /\ ret = (IF sec_ret = "true" THEN "true" ELSE "false")

\* C18 witness: a linkat with AT_EMPTY_PATH and an empty old path came back
\* false after its secondary walk was not positive
C18_Witness ==
  /\ Done
  /\ EmptyPathEvent
  /\ event.syscall_nr = "linkat"
  /\ Len(walks) = 1
  /\ sec_ret = "false"
  /\ ret = "false"

\* a symlink event with both paths, a symlinkat event with newdirfd as well
SymlinkEvent ==
  /\ event.syscall_nr \in {"symlink", "symlinkat"}
  /\ Len(event.path_args) >= 2
  /\ event.syscall_nr = "symlinkat" => Len(event.args) >= 2

\* the one walk such an event makes
SymlinkWalk ==
  <<"secondary", Dirname(event.path_args[2]),
    IF event.syscall_nr = "symlinkat" THEN SomeFd(event.args[2]) ELSE NoAtFd>>

\* C19: for symlink and symlinkat the link target string (path argument 0)
\* is never walked: at every point of the call the only walk started is the
\* one of dirname(path argument 1) (relative to numeric argument 1 for
\* symlinkat), and the result is determined by what that walk returned, true
\* when it returned true and false otherwise, with no part played by the
\* value of path argument 0.
C19_TargetNeverWalked ==
  SymlinkEvent =>
    /\ walks \in {<<>>, <<SymlinkWalk>>}
    /\ wpath \in {<<>>, SymlinkWalk[2]}
    /\ Done => /\ walks = <<SymlinkWalk>>
               /\ ret = (IF sec_ret = "true" THEN "true" ELSE "false")

\* C19 witness: a symlinkat whose link target differs from the directory of
\* the new link came back true from the walk of that directory
C19_Witness ==
  /\ Done
  /\ SymlinkEvent
  /\ event.syscall_nr = "symlinkat"
  /\ event.path_args[1] # <<>>
  /\ event.path_args[1] # Dirname(event.path_args[2])
  /\ ret = "true"

\* a mount event with source, target and flags
MountEvent ==
  /\ event.syscall_nr = "mount"
  /\ Len(event.path_args) >= 2
  /\ Len(event.args) >= 4

MountBindOrMove == HasBit(event.args[4], MS_BIND) \/ HasBit(event.args[4], MS_MOVE)

TargetWalk == <<"secondary", event.path_args[2], NoAtFd>>
SourceWalk == <<"primary", event.path_args[1], NoAtFd>>

\* C20: for a mount event the first walk is that of the whole target (path
\* argument 1); without MS_BIND and MS_MOVE in argument 3 no other walk is
\* made and the result is true exactly when the target walk returned true,
\* else false; with MS_BIND or MS_MOVE a positive target walk returns true,
\* and otherwise the whole source (path argument 0) is walked next and the
\* call returns what that walk returned.
C20_MountOrder ==
  MountEvent =>
    /\ walks \in {<<>>, <<TargetWalk>>, <<TargetWalk, SourceWalk>>}
    /\ Len(walks) = 2 => MountBindOrMove /\ sec_ret # "true" /\ sec_ret # "none"
    /\ Done /\ ~MountBindOrMove
         => walks = <<TargetWalk>> /\ ret = (IF sec_ret = "true" THEN "true" ELSE "false")
    /\ Done /\ MountBindOrMove
         => IF sec_ret = "true" THEN walks = <<TargetWalk>> /\ ret = "true"
                               ELSE walks = <<TargetWalk, SourceWalk>> /\ ret # "none"

\* C20 witness: a bind or move mount whose target walk was not positive
\* returned true from the walk of its whole source
C20_Witness ==
  /\ Done
  /\ MountEvent
  /\ MountBindOrMove
  /\ sec_ret # "true"
  /\ walks = <<TargetWalk, SourceWalk>>
  /\ ret = "true"

\* an execve or execveat event that reaches the direct check
ExecEvent ==
  /\ event.syscall_nr \in {"execve", "execveat"}
  /\ Len(event.path_args) >= 1
  /\ event.syscall_nr = "execveat"
       => /\ Len(event.args) >= 5
          /\ ~(HasBit(event.args[5], AT_EMPTY_PATH) /\ event.path_args[1] = <<>>)

ExecFd == IF event.syscall_nr = "execveat" THEN SomeFd(event.args[1]) ELSE NoAtFd

\* the file the whole path names, links followed
ExecTarget ==
  LET p == event.path_args[1]
      start == IF IsAbsolutePath(p) THEN RootNode
               ELSE IF ~ExecFd.has_value \/ ExecFd.value = AT_FDCWD THEN cwd
               ELSE IF ExecFd.value \in DOMAIN fdtab0 THEN fdtab0[ExecFd.value]
               ELSE NoNode
  IN IF start = NoNode \/ p = <<>> THEN Err("ENOENT")
     ELSE KWalk(start, StrSplit(p), MAXSYMLINKS, TRUE)

\* C21: for execve and execveat the direct user-writable check of the named
\* file is the first thing started, before any walk; when it returns true
\* the dispatcher returns true with no walk made, so an executable that is a
\* regular file of a non-root owner is reported true whatever its
\* directories are.
C21_DirectCheckFirst ==
  ExecEvent =>
    /\ walks = <<>> => pc = "FEIUC"
    /\ walks # <<>> => walks[1] = <<"direct", event.path_args[1], ExecFd>>
    /\ Done /\ sec_ret = "true" => ret = "true" /\ Len(walks) = 1
    /\ Done /\ sec_ret # "FAILED_PRECONDITION" /\ ExecTarget.err = "OK"
         /\ fs[ExecTarget.node].kind = "reg" /\ fs[ExecTarget.node].uid # 0
         => ret = "true" /\ Len(walks) = 1

\* C21 witness: execve of "/a/a", a regular file of uid 1000 in root-owned
\* directories of mode 0755, returned true from the direct check alone
C21_Witness ==
  /\ Done
  /\ event.syscall_nr = "execve"
  /\ event.path_args = <<PathAA>>
  /\ fs[1].uid = 0 /\ fs[1].mode = 493 /\ fs[1].iflags = "none"
  /\ fs[3].kind = "reg" /\ fs[3].uid = 1000
  /\ ret = "true"
  /\ walks = << <<"direct", PathAA, NoAtFd>> >>

\* what the whole path names from the call's starting directory, links followed
WritableTarget ==
  IF StartNode = NoNode THEN Err("EBADF")
  ELSE IF wpath = <<>> THEN Err("ENOENT")
  ELSE KWalk(StartNode, StrSplit(wpath), MAXSYMLINKS, TRUE)

\* the result the claim gives for that file
WritableAsClaimed ==
  LET t == WritableTarget
  IN IF t.err = "ENOENT" THEN "false"
     ELSE IF t.err # "OK" THEN "FAILED_PRECONDITION"
     ELSE IF fs[t.node].kind # "reg" THEN "false"
     ELSE IF fs[t.node].uid # 0 THEN "true"
     ELSE IF (fs[t.node].gid # 0 /\ fs[t.node].mode \in {436, 438})
               \/ fs[t.node].mode = 438 THEN "true"
     ELSE "false"

\* C22: FileIsUserWritable(path, at_fd) returns false when the file the whole
\* path names (links followed) does not exist or is not a regular file, true
\* when its uid is not 0, else true exactly when it is group-writable with a
\* gid other than 0 or world-writable; a stat failure other than ENOENT (and
\* a starting directory that cannot be opened) is the failed-precondition
\* error; and on every exit the descriptors are those held before the call.
C22_UserWritableRule ==
  Done => /\ fdtab = fdtab0
          /\ ret = (IF faults > 0 THEN "FAILED_PRECONDITION" ELSE WritableAsClaimed)

\* C22 witness: a root-owned regular file of mode 0664 and group 100,
\* reached through the link "/b", was reported true
C22_Witness ==
  /\ Done
  /\ wpath = PathB
  /\ fs[3].uid = 0 /\ fs[3].gid = 100 /\ fs[3].mode = 436
  /\ ret = "true"

\* the event carries the five numeric arguments and the paths its case reads
CompleteEvent ==
  /\ event.syscall_nr \in SupportedSyscalls
  /\ Len(event.args) = 5
  /\ Len(event.path_args) >= (IF event.syscall_nr \in SecondarySyscalls THEN 2 ELSE 1)

\* skip_last as the claim's table gives it
SkipAsClaimed ==
  LET nr == event.syscall_nr
      a == event.args
  IN \/ nr \in {"unlink", "mknod", "mkdir", "lchown", "unlinkat", "mknodat", "mkdirat",
                 "rename", "renameat", "renameat2"}
     \/ nr = "open" /\ (HasBit(a[2], O_NOFOLLOW) \/ HasBit(a[2], O_EXCL))
     \/ nr = "openat" /\ (HasBit(a[3], O_NOFOLLOW) \/ HasBit(a[3], O_EXCL))
     \/ nr \in {"fchownat", "execveat"} /\ HasBit(a[5], AT_SYMLINK_NOFOLLOW)
     \/ nr = "umount2" /\ HasBit(a[2], UMOUNT_NOFOLLOW)
     \/ nr \in {"name_to_handle_at", "linkat"} /\ ~HasBit(a[5], AT_SYMLINK_FOLLOW)

\* the primary walk, when one is made, is of dirname(path) exactly when the
\* table sets skip_last
PrimaryAsClaimed ==
  \A k \in DOMAIN walks :
    walks[k][1] = "primary"
      => walks[k][2] = (IF SkipAsClaimed THEN Dirname(event.path_args[1])
                                         ELSE event.path_args[1])

\* C23 as stated: the primary walk covers dirname(path) exactly when the
\* table sets skip_last, and when it does, nothing the call starts is given
\* the final component of the path: every walk or check is of a dirname.
C23_FinalComponentUnseen ==
  CompleteEvent =>
    /\ PrimaryAsClaimed
    /\ SkipAsClaimed =>
         \A k \in DOMAIN walks :
           walks[k][2] = Dirname(event.path_args[IF walks[k][1] = "secondary" THEN 2 ELSE 1])

\* C23 amended: the same, except that for execveat the direct check of the
\* whole path, final component included, is made before the walk.
C23_SkipLastRegime ==
  CompleteEvent =>
    /\ PrimaryAsClaimed
    /\ SkipAsClaimed =>
         \A k \in DOMAIN walks :
           IF walks[k][1] = "direct"
           THEN event.syscall_nr = "execveat" /\ k = 1 /\ walks[k][2] = event.path_args[1]
           ELSE walks[k][2] = Dirname(event.path_args[IF walks[k][1] = "secondary" THEN 2 ELSE 1])

\* C23 witness: an open with O_NOFOLLOW of "/a/b" ended after one walk, of "/a"
C23_Witness ==
  /\ Done
  /\ CompleteEvent
  /\ event.syscall_nr = "open"
  /\ HasBit(event.args[2], O_NOFOLLOW)
  /\ event.path_args[1] = PathAB
  /\ walks = << <<"primary", MkPath(TRUE, <<NameA>>), NoAtFd>> >>
  /\ IsBool(ret)

\* an intercepted call made while the thread's own audit is in flight
NestedFrame(t) == Len(frames[t]) = 2

\* C24: a nested call of LibcFileEventIsUserControlled on a thread whose audit is
\* in flight goes straight to the original function: it never reaches the
\* dispatcher or the logging.  The thread's flag is false whenever the thread is
\* outside an audit, whatever the outcome was, so every top-level call of an
\* audited function is audited, also while another thread's audit is in flight.
C24_ReentrancyGuard ==
  /\ \A t \in Threads :
       /\ NestedFrame(t) =>
            /\ sanitizing[t]
            /\ frames[t][2].pc \in {"entry", "orig"}
            /\ ~frames[t][2].audited
       /\ (frames[t] = <<>> \/ frames[t][1].pc \in {"entry", "orig"}) => ~sanitizing[t]
       /\ (frames[t] # <<>> /\ frames[t][1].fn \in AuditedCalls /\ frames[t][1].pc # "entry")
            => frames[t][1].audited
  /\ \A k \in 1 .. Len(dispatched) : dispatched[k].depth = 1
  /\ \A k \in 1 .. Len(origs) :
       /\ origs[k].depth = 2 => ~origs[k].audited /\ origs[k].outcome = "none"
       /\ (origs[k].depth = 1 /\ origs[k].fn \in AuditedCalls)
            => origs[k].audited /\ origs[k].outcome \in AuditOutcomes

\* after an audit that ended in an error, the thread's next audit is in flight,
\* a second thread has none, and a nested call is on its way to the original
C24_Witness ==
  /\ \E k \in 1 .. Len(origs) :
       origs[k].thread = 1 /\ origs[k].depth = 1 /\ origs[k].outcome = "FAILED_PRECONDITION"
  /\ NestedFrame(1)
  /\ frames[1][1].pc = "dispatch"
  /\ frames[1][2].pc = "orig"
  /\ ~sanitizing[2]

\* the reports made so far for calls whose audit has finished reporting
ReportsDue ==
  Cardinality({k \in 1 .. Len(origs) : origs[k].outcome \in {"true", "FAILED_PRECONDITION"}})
    + Cardinality({t \in Threads :
        /\ frames[t] # <<>>
        /\ frames[t][1].pc \in {"clear", "orig"}
        /\ frames[t][1].outcome \in {"true", "FAILED_PRECONDITION"}})

\* C25: for every intercepted call the audit outcome selects the report only
\* (one warning for true, one "cannot audit" warning for an error, nothing for
\* false), and the original function is then called once with the arguments the
\* caller passed, its return value being returned unchanged.
C25_ReportOnlyThenOriginal ==
  /\ Len(syslog_lines) + Len(stderr_lines) = ReportsDue
  /\ \A k \in 1 .. Len(origs) :
       /\ origs[k].orig = [fn |-> origs[k].fn, args |-> origs[k].args]
       /\ origs[k].returned = origs[k].rv

\* C26: with PATHAUDITOR_TEST set, every report of an audit outcome is a line
\* "AUDITING:<function name>" on standard error, and the system log gets nothing.
C26_TestModeMarkerOnly ==
  test_env =>
    /\ syslog_lines = <<>>
    /\ Len(stderr_lines) = ReportsDue
    /\ \A k \in 1 .. Len(stderr_lines) :
         stderr_lines[k].text = "AUDITING:" /\ stderr_lines[k].detail \in AuditedCalls

\* the descriptors the auditor opened itself and still holds
OwnDescriptors == DOMAIN fdtab \ DOMAIN fdtab0

\* C27: at every point of a dispatcher call the auditor holds at most two
\* descriptors it opened itself, and when a secondary walk or the direct check
\* has returned, before the primary walk starts, it holds none.
C27_AtMostTwoDescriptors ==
  /\ Cardinality(OwnDescriptors) <= 2
  /\ pc = "FEIUC_after" => OwnDescriptors = {}

\* a step leaves the FileEvent and the filesystem as they were
EventAndFilesystemUntouched == event' = event /\ fs' = fs /\ cwd' = cwd

\* C28: no step of FileEventIsUserControlled changes the FileEvent (syscall
\* number, arguments, path arguments), also when the last component is stripped
\* for skip_last, and no step changes a filesystem object: the kernel calls made
\* only read.
C28_EventReadOnly == [][EventAndFilesystemUntouched]_vars

\* a call that stripped the last component has returned: the walk ran on the
\* shortened path and the event still carries the whole one
C28_Witness ==
  /\ Done
  /\ skip_last_element
  /\ walks # <<>>
  /\ walks[Len(walks)] = <<"primary", Dirname(path), fd_arg>>
  /\ Dirname(path) # path
  /\ event.path_args[1] = path
  /\ ret \in {"true", "false"}

\* the first step whose expression is not OK, 0 when every expression is OK
FirstNotOk ==
  LET B == {k \in 1 .. Len(macro_steps) : ~macro_steps[k].expr.ok}
  IN IF B = {} THEN 0 ELSE CHOOSE k \in B : \A j \in B : k <= j

\* what target tg holds after the first n steps were all OK
ValueAfter(tg, n) ==
  LET A == {k \in 1 .. n : macro_steps[k].macro = "ASSIGN_OR_RETURN" /\ macro_steps[k].target = tg}
  IN IF A = {} THEN Unassigned
     ELSE macro_steps[CHOOSE k \in A : \A j \in A : j <= k].expr.value

MacroReturned == macro_ret \notin {"none", "running"}

\* C29: in a function made of RETURN_IF_ERROR / ASSIGN_OR_RETURN steps, the
\* steps before the first not-OK expression all run, each ASSIGN_OR_RETURN
\* storing its value (the last one wins for a repeated target); the first
\* not-OK step returns exactly its status, leaves its target as it was, and
\* nothing after it runs; with no such step the function reaches its end.
C29_MacroSequence ==
  /\ macro_ret = "running" =>
       /\ macro_run = [k \in 1 .. (macro_pc - 1) |-> k]
       /\ \A k \in 1 .. (macro_pc - 1) : macro_steps[k].expr.ok
       /\ \A tg \in 1 .. NumTargets : macro_locals[tg] = ValueAfter(tg, macro_pc - 1)
  /\ MacroReturned =>
       IF FirstNotOk = 0
       THEN /\ macro_ret = "ERROR"
            /\ macro_run = [k \in 1 .. (Len(macro_steps) + 1) |-> k]
            /\ \A tg \in 1 .. NumTargets : macro_locals[tg] = ValueAfter(tg, Len(macro_steps))
       ELSE /\ macro_ret = macro_steps[FirstNotOk].expr.status
            /\ macro_run = [k \in 1 .. FirstNotOk |-> k]
            /\ \A tg \in 1 .. NumTargets : macro_locals[tg] = ValueAfter(tg, FirstNotOk - 1)

\* a target assigned twice, then a failing ASSIGN_OR_RETURN on it, returned
C29_Witness ==
  /\ MacroReturned
  /\ Len(macro_steps) = 3
  /\ \A k \in 1 .. 3 : macro_steps[k].macro = "ASSIGN_OR_RETURN" /\ macro_steps[k].target = 1
  /\ macro_steps[1].expr = StatusOrValue(1)
  /\ macro_steps[2].expr = StatusOrValue(2)
  /\ macro_steps[3].expr = StatusError("EXPECTED")
  /\ macro_ret = "EXPECTED"
  /\ macro_locals[1] = 2

\* the walker is about to stat a component classified as not user-controlled
AtComponentStat == pc = "PIUC_classified" /\ ret = "false"

\* the walk returned v in this step, leaving the rest of the queue alone
WalkReturnedAtOnce(v) ==
  /\ pc' = Head(stack)
  /\ ret' = v
  /\ path_queue' = path_queue
  /\ pops' = pops

ComponentStatAsClaimed ==
  AtComponentStat =>
    IF faults' = faults /\ KStatNoFollow(dir_fd, elem).err = "ENOENT"
    THEN WalkReturnedAtOnce("false")
    ELSE (faults' > faults \/ KStatNoFollow(dir_fd, elem).err # "OK")
           => WalkReturnedAtOnce("FAILED_PRECONDITION")

\* C30: when the no-follow stat of a component classified as not
\* user-controlled reports ENOENT the walk returns false in that step, with the
\* remaining components still queued and never classified; any other failure of
\* that stat makes the walk return the failed-precondition error.
C30_AbsentComponentEndsWalk == [][ComponentStatAsClaimed]_vars

\* a walk has returned false at an absent component with components left
C30_Witness ==
  /\ pc = "done"
  /\ ret = "false"
  /\ path_queue # <<>>
  /\ ~kfail
  /\ faults = 0
  /\ pops < Len(StrSplit(wpath))

\* the walker dispatches on a component that is neither a directory nor a link
AtTerminalNode == pc = "PIUC_switch" /\ sb \notin {"dir", "lnk"}

TerminalNodeAsClaimed ==
  AtTerminalNode =>
    /\ pc' = Head(stack)
    /\ ret' = (IF path_queue = <<>> THEN "false" ELSE "FAILED_PRECONDITION")
    /\ fdtab' = CloseFd(fdtab, dir_fd)
    /\ path_queue' = path_queue
    /\ pops' = pops

\* C31: at a component that is neither a directory nor a symlink and was
\* classified as not user-controlled, the walk returns false when the queue is
\* empty and the failed-precondition error when components remain; the step
\* opens nothing and reads nothing, it only releases the held descriptor.
C31_TerminalNode == [][TerminalNodeAsClaimed]_vars

\* a walk ended at a regular file with components left, no kernel call failing
C31_Witness ==
  /\ pc = "done"
  /\ sb = "reg"
  /\ ret = "FAILED_PRECONDITION"
  /\ path_queue # <<>>
  /\ ~kfail
  /\ fdtab = fdtab0

\* the walker dispatches on a symlink
AtLink == pc = "PIUC_switch" /\ sb = "lnk"

\* the text of the link named elem in the held directory
HeldLinkText == fs[fs[fdtab[dir_fd]].ents[elem]].target

SymlinkStepAsClaimed ==
  /\ AtLink =>
       IF faults' > faults \/ Len(HeldLinkText) >= PATH_MAX
       THEN pc' = Head(stack) /\ ret' = "FAILED_PRECONDITION"
       ELSE /\ fdtab' = fdtab
            /\ dir_fd' = dir_fd
            /\ IF HeldLinkText[1] = Slash
               THEN pc' = "PIUC_root" /\ link_buf' = HeldLinkText /\ path_queue' = path_queue
               ELSE pc' = "PIUC_loop" /\ path_queue' = StrSplit(HeldLinkText) \o path_queue
  /\ (pc = "PIUC_root" /\ faults' = faults) =>
       /\ pc' = "PIUC_root_close"
       /\ new_fd' \notin DOMAIN fdtab
       /\ fdtab' = fdtab @@ (new_fd' :> RootNode)
  /\ pc = "PIUC_root_close" =>
       /\ pc' = "PIUC_loop"
       /\ dir_fd' = new_fd
       /\ DOMAIN fdtab' = DOMAIN fdtab \ {dir_fd}
       /\ fdtab'[dir_fd'] = RootNode
       /\ path_queue' = StrSplit(link_buf) \o path_queue

\* C32: at a symlink the components of the target go to the front of the
\* queue, in order, ahead of what remained; for an absolute target the held
\* descriptor is closed and replaced by a fresh descriptor of the auditee's
\* root, for a relative target it stays; a target of PATH_MAX bytes or more, or
\* a link that cannot be read, is the failed-precondition error.
C32_SymlinkExpansion == [][SymlinkStepAsClaimed]_vars

\* an absolute link met with components still queued has been expanded: the
\* walk holds a new descriptor of the root and the link's components lead
C32_Witness ==
  /\ pc = "PIUC_loop"
  /\ link_buf = MkPath(TRUE, <<NameA, NameA>>)
  /\ path_queue = <<NameA, NameA, NameB>>
  /\ dir_fd \in DOMAIN fdtab
  /\ fdtab[dir_fd] = RootNode
  /\ dir_fd = new_fd
  /\ Cardinality(DOMAIN fdtab) = 2

\* the held directory is on procfs
HeldOnProc == fs[fdtab[dir_fd]].fstype = "proc"

\* elem names a symlink in the held directory
ElemIsLink ==
  /\ elem \in DOMAIN fs[fdtab[dir_fd]].ents
  /\ fs[fs[fdtab[dir_fd]].ents[elem]].kind = "lnk"

\* what following elem from the held directory arrives at
ElemFollowed == KWalk(fdtab[dir_fd], <<elem>>, MAXSYMLINKS, TRUE)

ProcLinkStepAsClaimed ==
  /\ (pc = "PIUC_statfs" /\ faults' = faults) =>
       pc' = (IF HeldOnProc THEN "PIUC_restat" ELSE "PIUC_switch") /\ sb' = "lnk"
  /\ pc = "PIUC_restat" =>
       /\ HeldOnProc /\ ElemIsLink
       /\ IF faults' > faults \/ ElemFollowed.err # "OK"
          THEN pc' = Head(stack) /\ ret' = "FAILED_PRECONDITION"
          ELSE pc' = "PIUC_switch" /\ sb' = fs[ElemFollowed.node].kind /\ sb' # "lnk"
  /\ (pc = "PIUC_switch" /\ ElemIsLink) =>
       IF HeldOnProc
       THEN /\ sb # "lnk"
            /\ link_buf' = link_buf
            /\ path_queue' = path_queue
            /\ (sb = "dir" /\ faults' = faults) =>
                 pc' = "PIUC_chdir" /\ fdtab'[new_fd'] = ElemFollowed.node
            /\ sb # "dir" => pc' = Head(stack)
       ELSE sb = "lnk"

\* C33: a symlink in a held directory on procfs is stat-ed again following the
\* link and handled by the type of its target (openat descends into a
\* directory, anything else is a terminal node), its text never being read; a
\* failure of that stat, ENOENT included, is the failed-precondition error; a
\* symlink in any other directory is expanded from its text.
C33_ProcSymlink == [][ProcLinkStepAsClaimed]_vars

\* in a directory on procfs the walk went through a link into its target directory
C33_Witness ==
  /\ pc = "PIUC_loop"
  /\ i > 0
  /\ elem = NameB
  /\ sb = "dir"
  /\ link_buf = <<>>
  /\ fs[1].fstype = "proc"
  /\ fs[4].kind = "lnk"
  /\ dir_fd = new_fd
  /\ dir_fd \in DOMAIN fdtab
  /\ fdtab[dir_fd] = KWalk(1, <<NameB>>, MAXSYMLINKS, TRUE).node
  /\ pops = Len(StrSplit(wpath))

\* C34: at the start of every iteration of the walker's loop exactly one
\* descriptor opened by the walk is held and it is open on a directory; the
\* queue never holds an empty component nor one with a '/' in it.
C34_WalkerInvariant ==
  /\ pc = "PIUC_loop" =>
       /\ DOMAIN fdtab \ DOMAIN fdtab0 = {dir_fd}
       /\ fs[fdtab[dir_fd]].kind = "dir"
  /\ \A k \in 1 .. Len(path_queue) :
       /\ path_queue[k] # <<>>
       /\ \A j \in 1 .. Len(path_queue[k]) : path_queue[k][j] # Slash

\* a rename or link event of either family with every argument its case reads
RenameOrLinkEvent ==
  /\ event.syscall_nr \in {"rename", "renameat", "renameat2", "link", "linkat"}
  /\ Len(event.path_args) >= 2
  /\ \A k \in ArgsRead(event.syscall_nr) : Len(event.args) >= k + 1

NewPathAtFd ==
  IF event.syscall_nr \in {"renameat", "renameat2", "linkat"}
  THEN SomeFd(event.args[3]) ELSE NoAtFd

OldPathAtFd ==
  IF event.syscall_nr \in {"renameat", "renameat2", "linkat"}
  THEN SomeFd(event.args[1]) ELSE NoAtFd

NewDirWalk == <<"secondary", Dirname(event.path_args[2]), NewPathAtFd>>

\* C35: for rename, renameat, renameat2, link and linkat the first walk is
\* that of dirname(path argument 1) and of nothing more of the second path,
\* relative to numeric argument 2 for renameat, renameat2 and linkat and to
\* the working directory for rename and link; a walk of path argument 0 (or
\* of its dirname) is started only after that walk has returned, and it uses
\* numeric argument 0 as at_fd for the *at variants.
C35_SecondaryWalkFirst ==
  RenameOrLinkEvent =>
    /\ Len(walks) <= 2
    /\ walks # <<>> => walks[1] = NewDirWalk
    /\ Len(walks) = 2
         => /\ sec_ret \notin {"none", "true"}
            /\ walks[2][1] = "primary"
            /\ walks[2][2] \in {event.path_args[1], Dirname(event.path_args[1])}
            /\ walks[2][3] = OldPathAtFd
    /\ Done => walks # <<>>

\* C35 witness: a renameat whose two descriptors differ walked the directory
\* of the new path first and then returned from the walk of the old one
C35_Witness ==
  /\ Done
  /\ RenameOrLinkEvent
  /\ event.syscall_nr = "renameat"
  /\ event.args[1] # event.args[3]
  /\ event.path_args[2] # Dirname(event.path_args[2])
  /\ walks = <<NewDirWalk, <<"primary", Dirname(event.path_args[1]), OldPathAtFd>> >>
  /\ IsBool(ret)

\* an event of a supported syscall that lacks an argument its case reads
ArgumentMissing ==
  /\ event.syscall_nr \in SupportedSyscalls
  /\ \/ Len(event.path_args) = 0
     \/ \E k \in ArgsRead(event.syscall_nr) : Len(event.args) <= k
     \/ ReadsPathArg1(event.syscall_nr) /\ Len(event.path_args) <= 1

\* C36: for an event of a supported syscall that lacks a numeric or path
\* argument its case reads, FileEventIsUserControlled returns the
\* out-of-range error and nothing else happens: no walk and no direct check
\* is started, no step of either is taken, no descriptor is opened and no
\* kernel call is made.
C36_MissingArgumentFirst ==
  ArgumentMissing =>
    /\ pc \in {"FEIUC", "done"}
    /\ walks = <<>>
    /\ fdtab = fdtab0
    /\ faults = 0
    /\ Done => ret = "OUT_OF_RANGE"

\* C36 witness: a linkat with both paths and four numeric arguments, the
\* flags in argument 4 missing, returned the out-of-range error
C36_Witness ==
  /\ Done
  /\ event.syscall_nr = "linkat"
  /\ Len(event.path_args) = 2
  /\ Len(event.args) = 4
  /\ ArgumentMissing
  /\ ret = "OUT_OF_RANGE"

\* node n is a proper ancestor of node m
IsAbove(n, m) ==
  /\ n # m
  /\ \/ fs[m].parent = n
     \/ fs[fs[m].parent].parent = n

\* the walker's openat of a component it classified as a directory succeeds
DescentStep == pc = "PIUC_switch" /\ sb = "dir" /\ pc' = "PIUC_chdir"

\* the name is opened as the directory it denotes, no link being followed
\* (on procfs the walker itself classified the link's target)
EntryNotFollowed ==
  LET entry == KStatNoFollow(dir_fd, elem)
  IN /\ entry.err = "OK"
     /\ fs[fdtab[dir_fd]].fstype # "proc"
          => fs[entry.node].kind = "dir" /\ fdtab'[new_fd'] = entry.node

\* the directory opened is not above the held one
NotAboveHeld == ~IsAbove(fdtab'[new_fd'], fdtab[dir_fd])

DescentAsClaimed == DescentStep => EntryNotFollowed /\ NotAboveHeld

\* C37: while another process changes the filesystem between the kernel
\* calls of a walk, every descent goes from the held directory descriptor
\* into the very entry that was classified and seen to be a directory: a name
\* that has become a symlink since the walker's fstatat is not followed by
\* the openat, and no descent leads above the held descriptor.
C37_DescentUnderRace == [][DescentAsClaimed]_vars

\* the second audit, of the open event of the creat wrapper, is over
BothAudited == Done /\ creat_ret # "none" /\ event.syscall_nr = "open"

\* C38: a creat event and the open event with flags O_CREAT|O_WRONLY|O_TRUNC
\* on the same path, audited from the same state, yield the same outcome;
\* each of them makes one walk, that of the whole path with its final
\* component and without at_fd.
C38_CreatLikeOpen ==
  /\ event.syscall_nr \in {"creat", "open"}
  /\ event.syscall_nr = "open" => FlagsOf(event) = CreatFlags
  /\ walks \in {<<>>, << <<"primary", event.path_args[1], NoAtFd>> >>}
  /\ BothAudited => ret = creat_ret /\ walks # <<>>

\* C38 witness: /a/a is a user-owned file in the root-owned sticky directory
\* /a, and both the creat event and the wrapper's open event came back true
C38_Witness ==
  /\ BothAudited
  /\ event.path_args[1] = PathAA
  /\ fs[1].uid = 0
  /\ HasBit(fs[1].mode, S_ISVTX)
  /\ fs[3].uid = 1000
  /\ creat_ret = "true"
  /\ ret = "true"

====
